---- MODULE Spec2Model ----
(***************************************************************************)
(* Model of the logistics core of LogisticsGame (src/main.py and helpers): *)
(* the road grid, the facility registry, the base resource pool, the       *)
(* production step of Game.update, the truck state machine and the         *)
(* breadth-first pathfinder.                                               *)
(*                                                                         *)
(* Cells are pairs <<x, y>>.  road_grid is the set of cells whose value in *)
(* the dict Game.road_grid is 1 (a cell that is absent from the dict and a *)
(* cell stored with value 0 behave alike in every read of the dict).       *)
(***************************************************************************)
EXTENDS Integers, Sequences, FiniteSets, TLC

VARIABLES
    roads,        \* Game.roads: set of cells
    road_grid,    \* Game.road_grid: the cells marked driveable (value 1)
    trees,        \* Game.trees
    stones,       \* Game.stones
    resources,    \* Game.resources: the base pool, in 1/StoreScale units
    buildings,    \* Game.buildings: sequence of Building records
    trucks,       \* Game.trucks: sequence of Truck records
    trucks_built, \* TruckFactory.trucks_built
    next_truck_id, \* Game.next_truck_id
    frames,       \* number of update calls made so far (one per frame of run)
    frame_dt,     \* the dt of every frame of the run (run passes it to update)
    pf_start,     \* argument start of the last find_path_on_roads call
    pf_goal,      \* argument goal of the last find_path_on_roads call
    pf_path,      \* its result
    pf_called     \* TRUE once the call has returned

vars == <<roads, road_grid, trees, stones, resources, buildings, trucks,
          trucks_built, next_truck_id, frames, frame_dt, pf_start, pf_goal, pf_path, pf_called>>

factory == <<trucks_built, next_truck_id>>
world == <<roads, road_grid, trees, stones, resources, buildings, trucks,
           factory>>
time == <<frames, frame_dt>>
pf == <<pf_start, pf_goal, pf_path, pf_called>>

\* Optional[Coord] = None
NoCell == <<>>

\* Optional[str] = None (cargo_type, saved_resource)
NoRes == "none"

(***************************************************************************)
(* Units.  The floats of the program are counted in fixed fractions: time  *)
(* (dt, conversion_timer) in 1/TicksPerSec seconds, a power of two, so     *)
(* that sums of dt are exact here as they are in binary floating point;    *)
(* positions in 1/PxScale pixels; production rates in 1/RateScale units    *)
(* per second (one tree = 0.2/s); amounts (storage, cargo, pool) in        *)
(* 1/StoreScale units, which is what a rate of 0.2/s yields in one time    *)
(* unit.                                                                   *)
(***************************************************************************)
GRID_SIZE == 32
TicksPerSec == 8
PxScale == 5
StoreScale == 40
RateScale == 5

CellSize == GRID_SIZE * PxScale
\* speed_px_per_sec = GRID_SIZE * 1.2, here per time unit
SpeedPerTick == (GRID_SIZE * PxScale * 12) \div (10 * TicksPerSec)
cargo_capacity == 20 * StoreScale
LoadBatch == 5 * StoreScale
ConversionPeriod == 5 * TicksPerSec
OneUnit == 1 * StoreScale
radius_cells == 5
max_dist == 12

Abs(n) == IF n < 0 THEN -n ELSE n
Min2(a, b) == IF a <= b THEN a ELSE b
Max2(a, b) == IF a >= b THEN a ELSE b
Min3(a, b, c) == Min2(a, Min2(b, c))

\* mutant of IntPart: rounded up
IntPart_up(a) == ((a + StoreScale - 1) \div StoreScale) * StoreScale

\* mutant of IntPart: the fraction is kept
IntPart_float(a) == a

\* int(x) of a non-negative amount, still counted in 1/StoreScale units
IntPart(a) == (a \div StoreScale) * StoreScale

(***************************************************************************)
(* The base: base_cell is drawn at random by Game.__init__; the model      *)
(* fixes one draw.                                                         *)
(***************************************************************************)
base_cell == <<2, 2>>

BaseArea == {<<base_cell[1] + dx, base_cell[2] + dy>> : dx \in 0..1, dy \in 0..1}

is_cell_in_base_area(cell) ==
    /\ base_cell[1] <= cell[1] /\ cell[1] <= base_cell[1] + 1
    /\ base_cell[2] <= cell[2] /\ cell[2] <= base_cell[2] + 1

is_cell_adjacent_to_base(cell) ==
    /\ base_cell[1] - 1 <= cell[1] /\ cell[1] <= base_cell[1] + 2
    /\ base_cell[2] - 1 <= cell[2] /\ cell[2] <= base_cell[2] + 2

(***************************************************************************)
(* Bounds of the pathfinder specification: the maps are the subsets of the *)
(* grid 0..PFMaxX by 0..PFMaxY.                                            *)
(***************************************************************************)
PFMaxX == 2
PFMaxY == 1
PFCells == (0..PFMaxX) \X (0..PFMaxY)

(***************************************************************************)
(* Roads and pathfinding                                                   *)
(***************************************************************************)
is_driveable(cell) == cell \in road_grid

\* mutant of neighbors4: the move to (x, y - 1) is missing
neighbors4_three(cell) ==
    << <<cell[1] + 1, cell[2]>>, <<cell[1] - 1, cell[2]>>, <<cell[1], cell[2] + 1>> >>

\* mutant of neighbors4: the last neighbour is the diagonal (x + 1, y - 1)
neighbors4_diag(cell) ==
    << <<cell[1] + 1, cell[2]>>, <<cell[1] - 1, cell[2]>>,
       <<cell[1], cell[2] + 1>>, <<cell[1] + 1, cell[2] - 1>> >>

neighbors4(cell) ==
    << <<cell[1] + 1, cell[2]>>, <<cell[1] - 1, cell[2]>>,
       <<cell[1], cell[2] + 1>>, <<cell[1], cell[2] - 1>> >>

\* The inner for loop of find_path_on_roads over the neighbours nbs[i..] of
\* cur: qc = <<queue, came>>, came maps each visited cell to its predecessor.
RECURSIVE bfs_visit(_, _, _, _)
bfs_visit(nbs, i, cur, qc) ==
    IF i > Len(nbs) THEN qc
    ELSE LET nb == nbs[i]
         IN  IF is_driveable(nb) /\ nb \notin DOMAIN qc[2]
             THEN bfs_visit(nbs, i + 1, cur,
                            <<Append(qc[1], nb), qc[2] @@ (nb :> cur)>>)
             ELSE bfs_visit(nbs, i + 1, cur, qc)

\* The while loop of find_path_on_roads: returns the final came map.
RECURSIVE bfs_loop(_, _, _)
bfs_loop(queue, came, goal) ==
    IF queue = <<>> THEN came
    ELSE LET cur == Head(queue)
         IN  IF cur = goal THEN came
             ELSE LET qc == bfs_visit(neighbors4(cur), 1, cur, <<Tail(queue), came>>)
                  IN  bfs_loop(qc[1], qc[2], goal)

\* The reconstruction loop followed by path.reverse().
RECURSIVE bfs_reconstruct(_, _)
bfs_reconstruct(cur, came) ==
    IF cur = NoCell THEN <<>>
    ELSE Append(bfs_reconstruct(came[cur], came), cur)

find_path_on_roads(start, goal) ==
    IF start = goal THEN <<start>>
    ELSE LET came == bfs_loop(<<start>>, (start :> NoCell), goal)
         IN  IF goal \notin DOMAIN came THEN <<>>
             ELSE bfs_reconstruct(goal, came)

\* The ring scan of find_nearest_road_to_cell with radius r from candidate
\* (d, dx, sy): k = 1 stands for sy = -1 and k = 2 for sy = 1.
RECURSIVE ring_scan(_, _, _, _, _)
ring_scan(cell, r, d, dx, k) ==
    IF d > r THEN NoCell
    ELSE IF dx > d THEN ring_scan(cell, r, d + 1, -(d + 1), 1)
    ELSE LET dy == d - Abs(dx)
             sy == IF k = 1 THEN -1 ELSE 1
             cand == <<cell[1] + dx, cell[2] + sy * dy>>
         IN  IF is_driveable(cand) THEN cand
             ELSE IF k = 1 THEN ring_scan(cell, r, d, dx, 2)
             ELSE ring_scan(cell, r, d, dx + 1, 1)

\* mutant of find_nearest_road: the scan starts at the second ring
find_nearest_road_ring2(cell, r) ==
    IF is_driveable(cell) THEN cell ELSE ring_scan(cell, r, 2, -2, 1)

\* find_nearest_road_to_cell(cell, max_dist) of the code
find_nearest_road(cell, r) ==
    IF is_driveable(cell) THEN cell ELSE ring_scan(cell, r, 1, -1, 1)

\* every call of the code leaves max_dist at its default
find_nearest_road_to_cell(cell) == find_nearest_road(cell, max_dist)

\* mutant of is_cell_connected_to_base_by_roads: no path is asked for
is_cell_connected_any_road(cell) ==
    /\ find_nearest_road_to_cell(cell) # NoCell
    /\ find_nearest_road_to_cell(base_cell) # NoCell

is_cell_connected_to_base_by_roads(cell) ==
    LET start == find_nearest_road_to_cell(cell)
        goal == find_nearest_road_to_cell(base_cell)
    IN  IF start = NoCell \/ goal = NoCell THEN FALSE
        ELSE Len(find_path_on_roads(start, goal)) > 0

\* "find_nearest_road_to_cell(c) or c"
nearest_or_self(cell) ==
    LET r == find_nearest_road_to_cell(cell)
    IN  IF r = NoCell THEN cell ELSE r

(***************************************************************************)
(* World helpers                                                           *)
(***************************************************************************)
\* Index in blds of the first building on cell, 0 for None.
get_building_at_cell(blds, cell) ==
    IF \E i \in 1..Len(blds) : blds[i].cell = cell
    THEN CHOOSE i \in 1..Len(blds) :
             /\ blds[i].cell = cell
             /\ \A j \in 1..(i - 1) : blds[j].cell # cell
    ELSE 0

count_trees_in_radius(center_cell, radius) ==
    Cardinality({t \in trees :
        (t[1] - center_cell[1]) * (t[1] - center_cell[1])
          + (t[2] - center_cell[2]) * (t[2] - center_cell[2]) <= radius * radius})

count_stones_in_radius(center_cell, radius) ==
    Cardinality({t \in stones :
        (t[1] - center_cell[1]) * (t[1] - center_cell[1])
          + (t[2] - center_cell[2]) * (t[2] - center_cell[2]) <= radius * radius})

RemoveAt(seq, i) == [j \in 1..(Len(seq) - 1) |-> IF j < i THEN seq[j] ELSE seq[j + 1]]

\* Building(type, cell, radius_cells, production_rate_per_sec, storage); a key
\* that is absent from the storage dict reads as 0.0, and so does an unset
\* conversion_timer.  production_rate_per_sec counts fifths of a unit per second.
Building(type, cell, rate) ==
    [type |-> type, cell |-> cell, production_rate_per_sec |-> rate,
     storage |-> [wood |-> 0, stone |-> 0, bmats |-> 0], conversion_timer |-> 0]

(***************************************************************************)
(* Build-mode commands                                                     *)
(***************************************************************************)
\* the first early return of paint_cell
paint_blocked(cell) ==
    cell \in trees \/ cell \in stones \/ cell \in roads

\* mutant of paint_cell: the road is free of charge
paint_cell_free(cell) ==
    IF paint_blocked(cell) \/ resources.bmats <= 0
    THEN UNCHANGED <<roads, road_grid, resources>>
    ELSE /\ roads' = roads \cup {cell}
         /\ road_grid' = road_grid \cup {cell}
         /\ UNCHANGED resources

paint_cell(cell) ==
    IF paint_blocked(cell) \/ resources.bmats <= 0
    THEN UNCHANGED <<roads, road_grid, resources>>
    ELSE /\ roads' = roads \cup {cell}
         /\ road_grid' = road_grid \cup {cell}
         /\ resources' = [resources EXCEPT !.bmats = @ - OneUnit]

\* mutant of can_place_lumber: the ring around the base is not looked at
can_place_lumber_ring(cell) ==
    /\ ~(cell \in trees \/ cell \in stones)
    /\ cell \notin roads
    /\ \A i \in 1..Len(buildings) : buildings[i].cell # cell

can_place_lumber(cell) ==
    /\ ~(cell \in trees \/ cell \in stones)
    /\ cell \notin roads
    /\ \A i \in 1..Len(buildings) : buildings[i].cell # cell
    /\ ~is_cell_adjacent_to_base(cell)

can_place_quarry(cell) ==
    /\ ~(cell \in trees \/ cell \in stones)
    /\ cell \notin roads
    /\ \A i \in 1..Len(buildings) : buildings[i].cell # cell
    /\ ~is_cell_adjacent_to_base(cell)

can_place_refinery(cell) ==
    /\ ~(cell \in trees \/ cell \in stones)
    /\ cell \notin roads
    /\ \A i \in 1..Len(buildings) : buildings[i].cell # cell
    /\ ~is_cell_adjacent_to_base(cell)

place_lumber_camp(cell) ==
    IF ~can_place_lumber(cell)
    THEN UNCHANGED <<buildings, road_grid>>
    ELSE /\ buildings' = Append(buildings,
                Building("lumber", cell, count_trees_in_radius(cell, radius_cells)))
         /\ road_grid' = road_grid \cup {cell}

place_quarry(cell) ==
    IF ~can_place_quarry(cell)
    THEN UNCHANGED <<buildings, road_grid>>
    ELSE /\ buildings' = Append(buildings,
                Building("quarry", cell, count_stones_in_radius(cell, radius_cells)))
         /\ road_grid' = road_grid \cup {cell}

\* production_rate_per_sec = 0.2
place_refinery(cell) ==
    IF ~can_place_refinery(cell)
    THEN UNCHANGED <<buildings, road_grid>>
    ELSE /\ buildings' = Append(buildings, Building("refinery", cell, 1))
         /\ road_grid' = road_grid \cup {cell}

\* road_grid after "self.road_grid[cell] = 0" for a bulldozed road
bulldoze_road_grid(w, cell) == w.road_grid \ {cell}

\* self.resources["bmats"] += 1
bulldoze_refund(res) == [res EXCEPT !.bmats = @ + OneUnit]

\* One iteration of the loop of execute_bulldoze on the state
\* w = [roads, road_grid, resources, buildings].
bulldoze_cell(w, cell) ==
    IF cell \in w.roads
    THEN [w EXCEPT !.roads = @ \ {cell},
                   !.road_grid = bulldoze_road_grid(w, cell),
                   !.resources = bulldoze_refund(@)]
    ELSE LET i == get_building_at_cell(w.buildings, cell)
         IN  IF i = 0 THEN w
             ELSE [w EXCEPT !.road_grid = @ \ {cell},
                            !.buildings = RemoveAt(@, i)]

\* The loop over highlighted_cells; the iterations touch different cells and
\* add to one counter, so the (unspecified) set order does not matter.
RECURSIVE bulldoze_cells(_, _)
bulldoze_cells(w, cells) ==
    IF cells = {} THEN w
    ELSE LET c == CHOOSE c \in cells : TRUE
         IN  bulldoze_cells(bulldoze_cell(w, c), cells \ {c})

execute_bulldoze(highlighted_cells) ==
    LET w == bulldoze_cells([roads |-> roads, road_grid |-> road_grid,
                             resources |-> resources, buildings |-> buildings],
                            highlighted_cells)
    IN  /\ roads' = w.roads
        /\ road_grid' = w.road_grid
        /\ resources' = w.resources
        /\ buildings' = w.buildings

(***************************************************************************)
(* Truck logistics.  The functions below work on t (one Truck record) and  *)
(* on the pair of the base pool res and the building list blds, and return *)
(* the record [t, resources, buildings] of their values on return.         *)
(***************************************************************************)
Ret(t, res, blds) == [t |-> t, resources |-> res, buildings |-> blds]

\* mutant of load_amount: max in place of min
load_amount_max(amount_available, t) ==
    Max2(LoadBatch, Max2(amount_available, cargo_capacity - t.cargo_amount))

\* load_amount = min(5.0, amount_available, t.cargo_capacity - t.cargo_amount)
load_amount(amount_available, t) ==
    Min3(LoadBatch, amount_available, cargo_capacity - t.cargo_amount)

\* mutant of storage_after_load: no clamp, and a whole batch is taken
storage_after_load_batch(stored, load) == stored - LoadBatch

\* max(0.0, b.storage.get(key, 0.0) - load_amount)
storage_after_load(stored, load) == Max2(0, stored - load)

\* The three "loaded from base" blocks of on_truck_arrival.
load_from_base(t, res, key) ==
    LET amount_available == res[key]
        load == load_amount(amount_available, t)
    IN  IF load > 0
        THEN <<[t EXCEPT !.cargo_amount = @ + load],
               [res EXCEPT ![key] = Max2(0, amount_available - load)], load>>
        ELSE <<t, res, load>>

\* mutant of load_from_building: the facility keeps what the truck loaded
load_from_building_kept(t, blds, i, type, key) ==
    LET amount_available == IF blds[i].type = type THEN blds[i].storage[key] ELSE 0
        load == load_amount(amount_available, t)
    IN  IF load > 0
        THEN <<[t EXCEPT !.cargo_amount = @ + load], blds, load>>
        ELSE <<t, blds, load>>

\* The three "loaded from facility" blocks: building i must have the
\* producing type, otherwise amount_available stays 0.0.
load_from_building(t, blds, i, type, key) ==
    LET amount_available == IF blds[i].type = type THEN blds[i].storage[key] ELSE 0
        load == load_amount(amount_available, t)
    IN  IF load > 0
        THEN <<[t EXCEPT !.cargo_amount = @ + load],
               IF blds[i].type = type
               THEN [blds EXCEPT ![i].storage[key] = storage_after_load(@, load)]
               ELSE blds,
               load>>
        ELSE <<t, blds, load>>

\* cur_road -> nearest road of target, plus target itself; <<>> when the
\* nearest road or the path is missing.
leg_path(t, target) ==
    LET cur_road == nearest_or_self(t.current_cell)
        target_road == find_nearest_road_to_cell(target)
    IN  IF target_road = NoCell THEN <<>>
        ELSE LET path2 == find_path_on_roads(cur_road, target_road)
             IN  IF path2 = <<>> THEN <<>> ELSE Append(path2, target)

is_refinery_at(blds, cell) ==
    LET i == get_building_at_cell(blds, cell)
    IN  i # 0 /\ blds[i].type = "refinery"

\* mutant of go_to_destination: an empty truck stays at the source
go_to_destination_loaded(t, res, blds) ==
    IF t.dest_cell = NoCell \/ t.cargo_amount = 0 THEN Ret(t, res, blds)
    ELSE LET path2 == leg_path(t, t.dest_cell)
         IN  IF path2 = <<>> THEN Ret(t, res, blds)
             ELSE Ret([t EXCEPT !.path_cells = path2, !.state = "to_dest"], res, blds)

\* mutant of go_to_destination: the state is switched before the path is
\* looked for
go_to_destination_switched(t, res, blds) ==
    IF t.dest_cell = NoCell THEN Ret(t, res, blds)
    ELSE LET path2 == leg_path(t, t.dest_cell)
         IN  Ret([t EXCEPT !.path_cells = path2, !.state = "to_dest"], res, blds)

\* "Now go to destination" (both branches build the same leg).
go_to_destination(t, res, blds) ==
    IF t.dest_cell = NoCell THEN Ret(t, res, blds)
    ELSE LET path2 == leg_path(t, t.dest_cell)
         IN  IF path2 = <<>> THEN Ret(t, res, blds)
             ELSE Ret([t EXCEPT !.path_cells = path2, !.state = "to_dest"], res, blds)

\* on_truck_arrival, state "to_source", truck on its source cell with
\* building i on it.
arrival_load(t, res, blds, i) ==
    LET src_cell == t.saved_source
    IN  IF t.cargo_type = "wood"
        THEN IF src_cell = base_cell
             THEN LET l == load_from_base(t, res, "wood")
                  IN  go_to_destination(l[1], l[2], blds)
             ELSE LET l == load_from_building(t, blds, i, "lumber", "wood")
                  IN  go_to_destination(l[1], res, l[2])
        ELSE IF t.cargo_type = "stone"
        THEN IF src_cell = base_cell
             THEN LET l == load_from_base(t, res, "stone")
                      t1 == IF l[3] > 0 /\ t.dest_cell # NoCell
                               /\ is_refinery_at(blds, t.dest_cell)
                            THEN [l[1] EXCEPT !.refinery_loop = TRUE]
                            ELSE l[1]
                  IN  go_to_destination(t1, l[2], blds)
             ELSE LET l == load_from_building(t, blds, i, "quarry", "stone")
                      path2 == IF l[3] > 0 /\ t.refinery_loop /\ t.dest_cell # NoCell
                               THEN leg_path(l[1], t.dest_cell)
                               ELSE <<>>
                  IN  IF path2 # <<>>
                      THEN Ret([l[1] EXCEPT !.path_cells = path2, !.state = "to_dest"],
                               res, l[2])
                      ELSE go_to_destination(l[1], res, l[2])
        ELSE IF t.cargo_type = "bmats"
        THEN IF src_cell = base_cell
             THEN LET l == load_from_base(t, res, "bmats")
                  IN  go_to_destination(l[1], l[2], blds)
             ELSE LET l == load_from_building(t, blds, i, "refinery", "bmats")
                  IN  go_to_destination(l[1], res, l[2])
        ELSE LET inferred == IF blds[i].type = "lumber" THEN "wood"
                             ELSE IF blds[i].type = "quarry" THEN "stone"
                             ELSE IF blds[i].type = "refinery" THEN "bmats"
                             ELSE t.cargo_type
             IN  go_to_destination([t EXCEPT !.cargo_type = inferred], res, blds)

\* mutant of repeat_or_idle: the repeat switch is not read
repeat_or_idle_stop(t, res, blds) ==
    Ret([t EXCEPT !.state = "idle", !.cargo_type = NoRes, !.dest_cell = NoCell],
        res, blds)

\* "Repeat or return to idle"
repeat_or_idle(t, res, blds) ==
    LET path_back == IF t.repeat_enabled /\ t.saved_source # NoCell
                        /\ t.saved_dest # NoCell /\ t.saved_resource # NoRes
                     THEN leg_path(t, t.saved_source)
                     ELSE <<>>
    IN  IF path_back # <<>>
        THEN Ret([t EXCEPT !.path_cells = path_back, !.state = "to_source",
                           !.cargo_type = t.saved_resource,
                           !.dest_cell = t.saved_dest], res, blds)
        ELSE Ret([t EXCEPT !.state = "idle", !.cargo_type = NoRes,
                           !.dest_cell = NoCell], res, blds)

\* mutant of cargo_after_unload: the cargo stays on the truck
cargo_after_unload_keep(cargo) == cargo

\* t.cargo_amount = 0.0 after a delivery
cargo_after_unload(cargo) == 0

\* mutant of enters_waiting: the truck waits after every stone delivery
enters_waiting_always(delivered) == TRUE

\* "if delivered > 0:" after the stone was handed to the refinery
enters_waiting(delivered) == delivered > 0

\* on_truck_arrival, state "to_dest"
arrival_unload(t, res, blds) ==
    IF t.dest_cell = NoCell THEN Ret([t EXCEPT !.state = "idle"], res, blds)
    ELSE IF t.current_cell = t.dest_cell
    THEN IF t.dest_cell = base_cell
         THEN IF t.cargo_type \in {"wood", "stone", "bmats"} /\ t.cargo_amount > 0
              THEN repeat_or_idle(
                       [t EXCEPT !.cargo_amount = cargo_after_unload(@)],
                       [res EXCEPT ![t.cargo_type] = @ + IntPart(t.cargo_amount)],
                       blds)
              ELSE repeat_or_idle(t, res, blds)
         ELSE LET i == get_building_at_cell(blds, t.dest_cell)
                  delivered == IntPart(t.cargo_amount)
              IN  IF i = 0 THEN repeat_or_idle(t, res, blds)
                  ELSE IF t.cargo_type = "stone" /\ blds[i].type = "refinery"
                          /\ t.cargo_amount > 0
                  THEN LET blds1 == [blds EXCEPT ![i].storage.stone = @ + delivered]
                           t1 == [t EXCEPT !.cargo_amount = cargo_after_unload(@)]
                       IN  IF enters_waiting(delivered)
                           THEN Ret([t1 EXCEPT !.state = "waiting_for_bmats",
                                               !.waiting_target = delivered],
                                    res, blds1)
                           ELSE repeat_or_idle(t1, res, blds1)
                  ELSE IF t.cargo_type \in {"wood", "bmats"} /\ t.cargo_amount > 0
                  THEN repeat_or_idle(
                           [t EXCEPT !.cargo_amount = cargo_after_unload(@)],
                           [res EXCEPT ![t.cargo_type] = @ + delivered],
                           blds)
                  ELSE repeat_or_idle(t, res, blds)
    ELSE IF t.refinery_loop /\ t.cargo_type = "stone" /\ t.cargo_amount = 0
            /\ is_cell_in_base_area(t.current_cell)
    THEN LET l == load_from_base(t, res, "stone")
         IN  IF l[3] > 0 THEN repeat_or_idle(l[1], l[2], blds)
             ELSE Ret([t EXCEPT !.state = "idle"], res, blds)
    ELSE repeat_or_idle(t, res, blds)

\* The branch for "waiting_for_bmats" reads the name dt, which is not bound in
\* on_truck_arrival: Python raises NameError there.  The branch is entered
\* only from update_truck after the last cell of a non-empty path was popped.
on_truck_arrival(t, res, blds) ==
    IF t.state = "to_source"
    THEN IF t.saved_source = NoCell
         THEN Ret([t EXCEPT !.state = "idle"], res, blds)
         ELSE IF t.current_cell = t.saved_source
         THEN LET i == get_building_at_cell(blds, t.saved_source)
              IN  IF i = 0 THEN Ret([t EXCEPT !.state = "idle"], res, blds)
                  ELSE arrival_load(t, res, blds, i)
         ELSE Ret(t, res, blds)
    ELSE IF t.state = "waiting_for_bmats"
    THEN Ret([t EXCEPT !.state = "NameError"], res, blds)
    ELSE IF t.state = "to_dest" THEN arrival_unload(t, res, blds)
    ELSE Ret(t, res, blds)

\* Largest r in lo..hi with r * r <= n.
RECURSIVE isqrt_between(_, _, _)
isqrt_between(n, lo, hi) ==
    IF lo >= hi THEN lo
    ELSE LET mid == (lo + hi + 1) \div 2
         IN  IF mid * mid <= n THEN isqrt_between(n, mid, hi)
             ELSE isqrt_between(n, lo, mid - 1)

\* Division that rounds towards zero.
TruncDiv(a, b) == IF a >= 0 THEN a \div b ELSE -((-a) \div b)

cell_center(cell) ==
    <<cell[1] * CellSize + CellSize \div 2, cell[2] * CellSize + CellSize \div 2>>

\* mutant of update_truck: the arrival hook runs for a truck without a path,
\* and no truck moves
update_truck_polls(t, dt, res, blds) ==
    IF t.path_cells = <<>> THEN on_truck_arrival(t, res, blds)
    ELSE Ret(t, res, blds)

\* mutant of update_truck: the step is not cut at the centre of the next cell
update_truck_unclamped(t, dt, res, blds) ==
    IF t.path_cells = <<>> THEN Ret(t, res, blds)
    ELSE LET next_cell == t.path_cells[1]
             target_px == cell_center(next_cell)
             vx == target_px[1] - t.position_px[1]
             vy == target_px[2] - t.position_px[2]
             dist2 == vx * vx + vy * vy
             step == SpeedPerTick * dt
         IN  IF dist2 = 0
             THEN LET t1 == [t EXCEPT !.position_px = target_px,
                                      !.current_cell = next_cell,
                                      !.path_cells = Tail(@)]
                  IN  IF t1.path_cells = <<>> THEN on_truck_arrival(t1, res, blds)
                      ELSE Ret(t1, res, blds)
             ELSE LET dist == IF vy = 0 THEN Abs(vx)
                              ELSE IF vx = 0 THEN Abs(vy)
                              ELSE isqrt_between(dist2, 0, Abs(vx) + Abs(vy))
                  IN  Ret([t EXCEPT !.position_px =
                               <<@[1] + TruncDiv(vx * step, dist),
                                 @[2] + TruncDiv(vy * step, dist)>>], res, blds)

\* update_truck.  On the position lattice dist < 1e-3 means dist = 0; along a
\* row or a column the unit vector is exact, elsewhere the new position is
\* rounded towards the old one.
update_truck(t, dt, res, blds) ==
    IF t.path_cells = <<>> THEN Ret(t, res, blds)
    ELSE LET next_cell == t.path_cells[1]
             target_px == cell_center(next_cell)
             vx == target_px[1] - t.position_px[1]
             vy == target_px[2] - t.position_px[2]
             dist2 == vx * vx + vy * vy
             step == SpeedPerTick * dt
         IN  IF dist2 = 0
             THEN LET t1 == [t EXCEPT !.position_px = target_px,
                                      !.current_cell = next_cell,
                                      !.path_cells = Tail(@)]
                  IN  IF t1.path_cells = <<>> THEN on_truck_arrival(t1, res, blds)
                      ELSE Ret(t1, res, blds)
             ELSE IF step * step >= dist2
             THEN Ret([t EXCEPT !.position_px = target_px], res, blds)
             ELSE LET dist == IF vy = 0 THEN Abs(vx)
                              ELSE IF vx = 0 THEN Abs(vy)
                              ELSE isqrt_between(dist2, 0, Abs(vx) + Abs(vy))
                  IN  Ret([t EXCEPT !.position_px =
                               <<@[1] + TruncDiv(vx * step, dist),
                                 @[2] + TruncDiv(vy * step, dist)>>], res, blds)

\* mutant of production_gate: the road connection is not asked for
production_gate_any(b) == b.production_rate_per_sec > 0

\* the two "continue" tests at the head of the production loop
production_gate(b) ==
    /\ b.production_rate_per_sec > 0
    /\ is_cell_connected_to_base_by_roads(b.cell)

\* mutant of produced: one second's worth in every frame
produced_per_frame(b, dt) ==
    (b.production_rate_per_sec * StoreScale) \div RateScale

\* production_rate_per_sec * dt, in storage units
produced(b, dt) ==
    (b.production_rate_per_sec * dt * StoreScale) \div (RateScale * TicksPerSec)

\* mutant of refinery_step: every full period of the timer converts a stone
refinery_step_catchup(b, dt) ==
    IF b.storage.stone > 0
    THEN LET n == Min2((b.conversion_timer + dt) \div ConversionPeriod,
                       b.storage.stone \div OneUnit)
         IN  IF n > 0
             THEN [b EXCEPT !.storage.stone = @ - n * OneUnit,
                            !.storage.bmats = @ + n * OneUnit,
                            !.conversion_timer = 0]
             ELSE [b EXCEPT !.conversion_timer = @ + dt]
    ELSE b

\* the refinery branch of the production loop
refinery_step(b, dt) ==
    IF b.storage.stone > 0
    THEN IF b.conversion_timer + dt >= ConversionPeriod
         THEN [b EXCEPT !.storage.stone = @ - OneUnit,
                        !.storage.bmats = @ + OneUnit,
                        !.conversion_timer = 0]
         ELSE [b EXCEPT !.conversion_timer = @ + dt]
    ELSE b

\* The body of the production loop of update for one building.
produce(b, dt) ==
    IF ~production_gate(b) THEN b
    ELSE IF b.type = "lumber" THEN [b EXCEPT !.storage.wood = @ + produced(b, dt)]
    ELSE IF b.type = "quarry" THEN [b EXCEPT !.storage.stone = @ + produced(b, dt)]
    ELSE IF b.type = "refinery" THEN refinery_step(b, dt)
    ELSE b

\* "for t in self.trucks: self.update_truck(t, dt)" from truck k on;
\* w = [trucks, resources, buildings].
RECURSIVE update_trucks(_, _, _)
update_trucks(w, k, dt) ==
    IF k > Len(w.trucks) THEN w
    ELSE LET r == update_truck(w.trucks[k], dt, w.resources, w.buildings)
         IN  update_trucks([trucks |-> [w.trucks EXCEPT ![k] = r.t],
                            resources |-> r.resources,
                            buildings |-> r.buildings], k + 1, dt)

update(dt) ==
    LET blds1 == [i \in 1..Len(buildings) |-> produce(buildings[i], dt)]
        w == update_trucks([trucks |-> trucks, resources |-> resources,
                            buildings |-> blds1], 1, dt)
    IN  /\ trucks' = w.trucks
        /\ resources' = w.resources
        /\ buildings' = w.buildings

world_pos_to_cell(pos_px) == <<pos_px[1] \div CellSize, pos_px[2] \div CellSize>>

\* mutant of assigned: the resource of the trip is not saved
assigned_unsaved(t, path, state, start_cell, source, dest, resource, loop) ==
    [t EXCEPT !.path_cells = path, !.state = state, !.cargo_type = resource,
              !.current_cell = start_cell, !.dest_cell = dest,
              !.saved_source = source, !.saved_dest = dest,
              !.refinery_loop = IF loop THEN TRUE ELSE @]

\* The assignments every successful branch of start_assignment makes.
assigned(t, path, state, start_cell, source, dest, resource, loop) ==
    [t EXCEPT !.path_cells = path, !.state = state, !.cargo_type = resource,
              !.current_cell = start_cell, !.dest_cell = dest,
              !.saved_source = source, !.saved_dest = dest,
              !.saved_resource = resource,
              !.refinery_loop = IF loop THEN TRUE ELSE @]

\* "Normal pathfinding" at the end of start_assignment
\* mutant of assign_normal: the trip is saved before the path is looked at
assign_normal_saved(t, start_cell, source_road, source, dest, resource) ==
    LET path1 == find_path_on_roads(start_cell, source_road)
    IN  IF path1 = <<>>
        THEN [t EXCEPT !.saved_source = source, !.saved_dest = dest,
                       !.saved_resource = resource]
        ELSE assigned(t, path1, "to_source", start_cell, source, dest, resource,
                      resource = "stone" /\ is_refinery_at(buildings, dest)
                        /\ (source = base_cell \/ dest # base_cell))

assign_normal(t, start_cell, source_road, source, dest, resource) ==
    LET path1 == find_path_on_roads(start_cell, source_road)
    IN  IF path1 = <<>> THEN t
        ELSE assigned(t, path1, "to_source", start_cell, source, dest, resource,
                      resource = "stone" /\ is_refinery_at(buildings, dest)
                        /\ (source = base_cell \/ dest # base_cell))

\* start_assignment on the truck record t; returns t as the code leaves it.
start_assignment(t, source, dest, resource) ==
    LET start_cell == find_nearest_road_to_cell(world_pos_to_cell(t.position_px))
        source_road == find_nearest_road_to_cell(source)
        dest_road == find_nearest_road_to_cell(dest)
        base_road == find_nearest_road_to_cell(base_cell)
    IN  IF start_cell = NoCell \/ source_road = NoCell \/ dest_road = NoCell THEN t
        ELSE IF source = base_cell /\ resource = "stone"
        THEN IF ~is_cell_in_base_area(t.current_cell)
             THEN IF base_road = NoCell THEN t
                  ELSE LET path_to_base == find_path_on_roads(start_cell, base_road)
                       IN  IF path_to_base = <<>> THEN t
                           ELSE assigned(t, Append(path_to_base, base_cell), "to_source",
                                         start_cell, source, dest, resource, TRUE)
             ELSE LET path_to_refinery == find_path_on_roads(start_cell, dest_road)
                  IN  IF path_to_refinery = <<>> THEN t
                      ELSE assigned(t, Append(path_to_refinery, dest), "to_dest",
                                    start_cell, source, dest, resource, TRUE)
        ELSE IF Abs(source[1] - base_cell[1]) + Abs(source[2] - base_cell[2]) <= 3
                /\ source_road = dest_road
        THEN IF base_road # NoCell /\ base_road # source_road
             THEN LET path1 == find_path_on_roads(start_cell, base_road)
                  IN  IF path1 # <<>>
                      THEN assigned(t, Append(path1, source), "to_source",
                                    start_cell, source, dest, resource, FALSE)
                      ELSE assign_normal(t, start_cell, source_road, source, dest,
                                         resource)
             ELSE t
        ELSE assign_normal(t, start_cell, source_road, source, dest, resource)

\* mutant of reset_truck: the saved trip and the cargo are kept
reset_truck_keep(t) ==
    [t EXCEPT !.state = "idle", !.path_cells = <<>>, !.dest_cell = NoCell]

reset_truck(t) ==
    [t EXCEPT !.state = "idle", !.path_cells = <<>>, !.cargo_type = NoRes,
              !.cargo_amount = 0, !.saved_source = NoCell, !.saved_dest = NoCell,
              !.saved_resource = NoRes, !.dest_cell = NoCell]

(***************************************************************************)
(* Construction                                                            *)
(***************************************************************************)
\* Truck(...) as built by spawn_truck_at_base; dest_cell, refinery_loop and
\* waiting_target are the attributes _dest_cell, refinery_loop and
\* waiting_target that the code attaches later (NoCell / FALSE / 0 = unset).
SpawnedTruck(id) ==
    [truck_id |-> id,
     position_px |-> <<base_cell[1] * CellSize + CellSize \div 2,
                       base_cell[2] * CellSize + CellSize \div 2>>,
     current_cell |-> base_cell,
     path_cells |-> <<>>,
     state |-> "idle",
     cargo_type |-> NoRes,
     cargo_amount |-> 0,
     repeat_enabled |-> FALSE,
     saved_source |-> NoCell,
     saved_dest |-> NoCell,
     saved_resource |-> NoRes,
     dest_cell |-> NoCell,
     refinery_loop |-> FALSE,
     waiting_target |-> 0]

\* The scatter of _generate_resources_around_view near the base: one draw.
InitTrees == {<<-2, 2>>, <<-1, 1>>, <<-1, 2>>, <<-1, 3>>, <<0, 0>>, <<1, 3>>}
InitStones == {<<-2, 0>>, <<-2, 4>>, <<-1, 0>>, <<-1, 4>>, <<0, 4>>, <<1, 1>>}

InitWorld ==
    /\ roads = {}
    /\ road_grid = BaseArea
    /\ trees = InitTrees
    /\ stones = InitStones
    /\ resources = [oil |-> 0, steel |-> 0, wood |-> 0, stone |-> 0,
                    bmats |-> 10 * StoreScale]
    /\ buildings = <<>>
    /\ trucks = <<SpawnedTruck(1), SpawnedTruck(2)>>
    /\ trucks_built = 2
    /\ next_truck_id = 3
    /\ frames = 0

\* simulated time elapsed
Elapsed == frames * frame_dt

InitNoCall ==
    /\ pf_start = NoCell
    /\ pf_goal = NoCell
    /\ pf_path = <<>>
    /\ pf_called = FALSE

\* The state after Game.__init__; run then calls update once per frame.
InitGame == InitWorld /\ InitNoCall

(***************************************************************************)
(* Commands of build mode as actions; the cells come from the given sets.  *)
(***************************************************************************)
PaintCell(cells) ==
    /\ \E cell \in cells : paint_cell(cell)
    /\ UNCHANGED <<trees, stones, buildings, trucks, factory, time, pf>>

PlaceLumberCamp(cells) ==
    /\ \E cell \in cells : place_lumber_camp(cell)
    /\ UNCHANGED <<roads, trees, stones, resources, trucks, factory, time, pf>>

PlaceQuarry(cells) ==
    /\ \E cell \in cells : place_quarry(cell)
    /\ UNCHANGED <<roads, trees, stones, resources, trucks, factory, time, pf>>

PlaceRefinery(cells) ==
    /\ \E cell \in cells : place_refinery(cell)
    /\ UNCHANGED <<roads, trees, stones, resources, trucks, factory, time, pf>>

ExecuteBulldoze(cells) ==
    /\ \E highlighted_cells \in (SUBSET cells) \ {{}} :
           execute_bulldoze(highlighted_cells)
    /\ UNCHANGED <<trees, stones, trucks, factory, time, pf>>

(***************************************************************************)
(* Explore-mode commands and the tick as actions.                          *)
(***************************************************************************)
StartAssignment(ids, sources, dests, kinds) ==
    /\ \E k \in 1..Len(trucks), source \in sources, dest \in dests, resource \in kinds :
           /\ trucks[k].truck_id \in ids
           /\ trucks' = [trucks EXCEPT ![k] = start_assignment(@, source, dest, resource)]
    /\ UNCHANGED <<roads, road_grid, trees, stones, resources, buildings, factory, time, pf>>

ResetTruck(ids) ==
    /\ \E k \in 1..Len(trucks) :
           /\ trucks[k].truck_id \in ids
           /\ trucks' = [trucks EXCEPT ![k] = reset_truck(@)]
    /\ UNCHANGED <<roads, road_grid, trees, stones, resources, buildings, factory, time, pf>>

\* the "repeat" button of the confirm panel
ToggleRepeat(ids) ==
    /\ \E k \in 1..Len(trucks) :
           /\ trucks[k].truck_id \in ids
           /\ trucks' = [trucks EXCEPT ![k].repeat_enabled = ~@]
    /\ UNCHANGED <<roads, road_grid, trees, stones, resources, buildings, factory, time, pf>>

\* One frame of run: update(dt) with dt = frame_dt, for at most max_frames
\* frames and max_elapsed of simulated time.
Update(max_frames, max_elapsed) ==
    /\ frames < max_frames
    /\ (frames + 1) * frame_dt <= max_elapsed
    /\ update(frame_dt)
    /\ frames' = frames + 1
    /\ UNCHANGED <<roads, road_grid, trees, stones, factory, frame_dt, pf>>

(***************************************************************************)
(* The game from construction: a road cell and a lumber camp west of the   *)
(* base, one commanded truck hauling wood, and the frames of run.          *)
(***************************************************************************)
MaxFrames == 8
RoadCell == <<1, 2>>
FacilityCell == <<0, 2>>
\* frames of half a second and of two and a half seconds
ShortFrame == TicksPerSec \div 2
LongFrame == (5 * TicksPerSec) \div 2
FrameDts == {ShortFrame, LongFrame}
TruckIds == {1}
Sources == {FacilityCell}
Dests == {FacilityCell, base_cell}
Kinds == {"wood"}

\* every frame length lets MaxFrames frames happen
MaxElapsed == MaxFrames * LongFrame

Next ==
    \/ PaintCell({RoadCell})
    \/ PlaceLumberCamp({FacilityCell})
    \/ ExecuteBulldoze({FacilityCell, RoadCell})
    \/ StartAssignment(TruckIds, Sources, Dests, Kinds)
    \/ ResetTruck(TruckIds)
    \/ ToggleRepeat(TruckIds)
    \/ Update(MaxFrames, MaxElapsed)

Init == InitGame /\ frame_dt \in FrameDts

Spec == Init /\ [][Next]_vars

\* C3: in every reachable state every truck has
\* 0 <= cargo_amount <= cargo_capacity.
C3_CargoWithinCapacity ==
    \A k \in 1..Len(trucks) :
        /\ 0 <= trucks[k].cargo_amount
        /\ trucks[k].cargo_amount <= cargo_capacity

\* a truck that loaded at the camp, delivered its load there and is idle again
C3_Witness ==
    \E k \in 1..Len(trucks) :
        /\ trucks[k].state = "idle"
        /\ trucks[k].cargo_amount = 0
        /\ trucks[k].current_cell = FacilityCell
        /\ resources.wood > 0

\* C4: in every reachable state every cell of every truck's path_cells other
\* than the final entry is driveable.
C4_PathCellsDriveable ==
    \A k \in 1..Len(trucks) :
        \A i \in 1..(Len(trucks[k].path_cells) - 1) :
            is_driveable(trucks[k].path_cells[i])

(***************************************************************************)
(* Specification of build mode alone: every build command on the cells     *)
(* around the base, no tick and no assignment.                             *)
(***************************************************************************)
BuildCells == {<<0, 2>>, <<0, 3>>, <<1, 1>>, <<1, 2>>, <<1, 3>>, <<2, 2>>}

NextBuild ==
    \/ PaintCell(BuildCells)
    \/ PlaceLumberCamp(BuildCells)
    \/ PlaceQuarry(BuildCells)
    \/ PlaceRefinery(BuildCells)
    \/ ExecuteBulldoze(BuildCells)

InitBuild == InitGame /\ frame_dt = 0

SpecBuild == InitBuild /\ [][NextBuild]_vars

FacilityCells == {buildings[i].cell : i \in 1..Len(buildings)}

\* C5: a cell is driveable if and only if it is a placed road, the cell of a
\* registered facility or one of the four cells of the base footprint (so the
\* base footprint is driveable in every reachable state).
C5_DriveableIffRoadFacilityBase ==
    road_grid = roads \cup FacilityCells \cup BaseArea

\* C6: a bulldoze that removes road cells refunds exactly 1 bmat per removed
\* road cell, and each removed road cell is driveable afterwards exactly when
\* a facility still occupies it.
C6_BulldozeRoadStep ==
    (roads' # roads /\ roads' \subseteq roads) =>
        /\ resources'.bmats = resources.bmats + OneUnit * Cardinality(roads \ roads')
        /\ \A c \in roads \ roads' :
               (c \in road_grid') <=>
                   (\E i \in 1..Len(buildings') : buildings'[i].cell = c)

C6_BulldozeRoad == [][C6_BulldozeRoadStep]_vars

\* C7: no cell is in more than one of the tree set, the stone set, the road
\* set and the set of facility cells.
C7_MutualExclusion ==
    /\ trees \cap stones = {}
    /\ trees \cap roads = {}
    /\ trees \cap FacilityCells = {}
    /\ stones \cap roads = {}
    /\ stones \cap FacilityCells = {}
    /\ roads \cap FacilityCells = {}

(***************************************************************************)
(* The stone chain: a quarry west and a refinery east of the base, built   *)
(* and assigned before the first frame; both trucks haul stone from the    *)
(* quarry to the refinery while roads may be bulldozed at any frame.       *)
(***************************************************************************)
MaxFleetFrames == 20
EastRoadCell == <<4, 2>>
RefineryCell == <<5, 2>>
FleetIds == {1, 2}

\* the player builds and assigns while no frame has run yet
BeforeFirstFrame == frames = 0

FleetPaintCell == BeforeFirstFrame /\ PaintCell({RoadCell, EastRoadCell})

FleetPlaceQuarry == BeforeFirstFrame /\ PlaceQuarry({FacilityCell})

FleetPlaceRefinery == BeforeFirstFrame /\ PlaceRefinery({RefineryCell})

FleetStartAssignment ==
    BeforeFirstFrame /\ StartAssignment(FleetIds, {FacilityCell}, {RefineryCell}, {"stone"})

NextFleet ==
    \/ FleetPaintCell
    \/ FleetPlaceQuarry
    \/ FleetPlaceRefinery
    \/ FleetStartAssignment
    \/ ExecuteBulldoze({RoadCell, EastRoadCell})
    \/ Update(MaxFleetFrames, MaxFleetFrames * LongFrame)

SpecFleet == Init /\ [][NextFleet]_vars

\* C8: in every reachable state every entry (wood, stone, bmats) of every
\* facility's storage is >= 0.
C8_StorageNonNegative ==
    \A i \in 1..Len(buildings) :
        /\ buildings[i].storage.wood >= 0
        /\ buildings[i].storage.stone >= 0
        /\ buildings[i].storage.bmats >= 0

\* both trucks loaded at the quarry in one tick and emptied it, each with a
\* share
C8_Witness ==
    /\ \A k \in 1..Len(trucks) :
           trucks[k].cargo_amount > 0 /\ trucks[k].current_cell = FacilityCell
    /\ \E i \in 1..Len(buildings) :
           buildings[i].type = "quarry" /\ buildings[i].storage.stone = 0

\* the refinery converted stone that the two trucks delivered
C8_RefineryConverted ==
    /\ \A k \in 1..Len(trucks) : trucks[k].state = "waiting_for_bmats"
    /\ \E i \in 1..Len(buildings) :
           buildings[i].type = "refinery" /\ buildings[i].storage.bmats > 0

\* The facilities the claim C9 speaks of, in the state before a tick.
Unconnected(b) ==
    b.production_rate_per_sec > 0 /\ ~is_cell_connected_to_base_by_roads(b.cell)

\* a step of Update is the only step that counts a frame
IsUpdateStep == frames' = frames + 1

C9_LeavesUnchangedStep ==
    IsUpdateStep =>
        \A i \in 1..Len(buildings) :
            Unconnected(buildings[i]) =>
                /\ buildings'[i].storage = buildings[i].storage
                /\ buildings'[i].conversion_timer = buildings[i].conversion_timer

\* C9 as stated: update(dt) leaves the storage and the conversion timer of
\* every facility with positive production rate that is not connected to the
\* base unchanged.
C9_LeavesUnchanged == [][C9_LeavesUnchangedStep]_vars

C9_AccruesNothingStep ==
    IsUpdateStep =>
        \A i \in 1..Len(buildings) :
            Unconnected(buildings[i]) =>
                LET old == buildings[i]
                    new == buildings'[i]
                IN  /\ new.conversion_timer = old.conversion_timer
                    /\ new.storage.wood <= old.storage.wood
                    /\ new.storage.bmats <= old.storage.bmats
                    /\ old.type # "refinery" => new.storage.stone <= old.storage.stone
                    /\ old.type = "refinery" => new.storage.stone >= old.storage.stone
                    /\ (\A k \in 1..Len(trucks) : trucks'[k].current_cell # old.cell)
                           => new.storage = old.storage

\* C9, amended: for a facility with positive production rate that is not
\* connected to the base, update(dt) produces and converts nothing and leaves
\* the conversion timer unchanged; its storage changes only by what a truck
\* standing on its cell after the tick loaded from it or delivered to it.
C9_AccruesNothing == [][C9_AccruesNothingStep]_vars

\* the refinery was cut off with its timer midway and frames went by: with
\* the road in place the stone of the two trucks would have been converted
C9_Witness ==
    /\ frames = MaxFleetFrames
    /\ \A k \in 1..Len(trucks) : trucks[k].state = "waiting_for_bmats"
    /\ \E i \in 1..Len(buildings) :
           /\ buildings[i].type = "refinery"
           /\ Unconnected(buildings[i])
           /\ buildings[i].storage.stone > 0
           /\ buildings[i].storage.bmats = 0
           /\ buildings[i].conversion_timer > 0

(***************************************************************************)
(* The refinery at work: truck 1 has delivered three stone to the          *)
(* connected refinery and waits there, the quarry has been bulldozed, and  *)
(* no command follows.  The frames of a run all have the length frame_dt,  *)
(* any length up to MaxDt, and are counted from this state on.             *)
(***************************************************************************)
MaxDt == 40
FifteenSeconds == 15 * TicksPerSec

\* The world after truck 1 delivered n stone to the connected refinery and
\* began to wait there for n bmats; the quarry has been bulldozed.
RefineryStocked(n) ==
    /\ roads = {RoadCell, EastRoadCell}
    /\ road_grid = BaseArea \cup {RoadCell, EastRoadCell, RefineryCell}
    /\ trees = InitTrees
    /\ stones = InitStones
    /\ resources = [oil |-> 0, steel |-> 0, wood |-> 0, stone |-> 0,
                    bmats |-> 8 * StoreScale]
    /\ buildings = <<[Building("refinery", RefineryCell, 1)
                          EXCEPT !.storage.stone = n * StoreScale]>>
    /\ trucks = <<[SpawnedTruck(1) EXCEPT
                       !.position_px = cell_center(RefineryCell),
                       !.current_cell = RefineryCell,
                       !.state = "waiting_for_bmats",
                       !.cargo_type = "stone",
                       !.saved_source = FacilityCell,
                       !.saved_dest = RefineryCell,
                       !.saved_resource = "stone",
                       !.dest_cell = RefineryCell,
                       !.refinery_loop = TRUE,
                       !.waiting_target = n * StoreScale],
                  SpawnedTruck(2)>>
    /\ trucks_built = 2
    /\ next_truck_id = 3

\* the world in which the fifteen seconds start
StockedRefinery == RefineryStocked(3)

InitProd ==
    /\ StockedRefinery
    /\ InitNoCall
    /\ frames = 0
    /\ frame_dt \in 1..MaxDt

NextProd == Update(FifteenSeconds, FifteenSeconds)

SpecProd == InitProd /\ [][NextProd]_vars

\* C10 as stated: once the ticks total exactly 15 seconds the refinery holds
\* bmats = 3 and stone = 0, whatever the tick length.
C10_ThreeBmatsAfter15s ==
    Elapsed = FifteenSeconds =>
        /\ buildings[1].storage.bmats = 3 * StoreScale
        /\ buildings[1].storage.stone = 0

(***************************************************************************)
(* The refinery under long frames: one to MaxStone stone delivered, frames *)
(* of any length up to MaxConvertDt (sixteen seconds), no further input.   *)
(***************************************************************************)
MaxStone == 3
MaxConvertDt == 128
MaxConvertFrames == 4

InitConvert ==
    /\ \E n \in 1..MaxStone : RefineryStocked(n)
    /\ InitNoCall
    /\ frames = 0
    /\ frame_dt \in 1..MaxConvertDt

NextConvert == Update(MaxConvertFrames, MaxConvertFrames * MaxConvertDt)

SpecConvert == InitConvert /\ [][NextConvert]_vars

\* bmats that update added to refinery i in the step
Converted(i) == buildings'[i].storage.bmats - buildings[i].storage.bmats

C11_OneConversionStep ==
    IsUpdateStep =>
        \A i \in 1..Len(buildings) :
            buildings[i].type = "refinery" =>
                /\ Converted(i) \in {0, OneUnit}
                /\ buildings'[i].storage.stone = buildings[i].storage.stone - Converted(i)
                /\ Converted(i) = OneUnit =>
                       /\ buildings[i].storage.stone > 0
                       /\ buildings[i].conversion_timer + frame_dt >= ConversionPeriod

\* the refinery that was handed one stone
C11_OneStoneOneBmat ==
    trucks[1].waiting_target = OneUnit =>
        \A i \in 1..Len(buildings) : buildings[i].storage.bmats <= OneUnit

\* C11: one update(dt) turns at most one stone into exactly one bmat per
\* refinery however large dt is, and only when the refinery holds stone > 0
\* and its timer, with dt added, has reached 5 seconds; a refinery that was
\* handed 1 stone and nothing more never holds more than 1 bmat.
C11_OneConversionPerUpdate == [][C11_OneConversionStep]_vars /\ []C11_OneStoneOneBmat

\* one frame of at least ten seconds went by on three stone: one bmat only
C11_Witness ==
    /\ frames = 1
    /\ frame_dt >= 2 * ConversionPeriod
    /\ buildings[1].storage.stone = 2 * StoreScale
    /\ buildings[1].storage.bmats = OneUnit

\* the refinery that truck t waits at holds the bmats t waits for, and a
\* road path leads from t to the base
ReadyToCollect(t) ==
    LET i == get_building_at_cell(buildings, t.dest_cell)
    IN  /\ t.state = "waiting_for_bmats"
        /\ i # 0
        /\ buildings[i].type = "refinery"
        /\ buildings[i].storage.bmats >= t.waiting_target
        /\ find_nearest_road_to_cell(base_cell) # NoCell
        /\ find_path_on_roads(nearest_or_self(t.current_cell),
                              find_nearest_road_to_cell(base_cell)) # <<>>

C15_CollectStep ==
    IsUpdateStep =>
        \A k \in 1..Len(trucks) :
            ReadyToCollect(trucks[k]) =>
                LET i == get_building_at_cell(buildings, trucks[k].dest_cell)
                IN  /\ trucks'[k].state = "to_dest"
                    /\ trucks'[k].dest_cell = base_cell
                    /\ trucks'[k].cargo_type = "bmats"
                    /\ trucks'[k].cargo_amount = trucks[k].waiting_target
                    /\ buildings'[i].storage.bmats
                           >= buildings[i].storage.bmats - trucks[k].waiting_target

\* C15 as stated: a truck that waits at a refinery holding at least
\* waiting_target bmats, with a road path to the base, withdraws exactly
\* waiting_target bmats in the next update and is then in to_dest with
\* destination base and cargo bmats, without a command.
C15_CollectsWhenReady == [][C15_CollectStep]_vars

(***************************************************************************)
(* Wood hauling: the road cell, the lumber camp and a quarry are built and *)
(* the repeat switch of truck 1 is set before the first frame; truck 1 is  *)
(* sent to fetch wood to the base whenever it is idle.  run calls update once   *)
(* per frame without end (while True), which is the fairness of HaulTick;  *)
(* the frames are counted up to MaxHaulFrames.                             *)
(***************************************************************************)
MaxHaulFrames == 40
\* no leg between the camp and the base takes more frames than this
LegFrames == 8

HaulPaintCell == BeforeFirstFrame /\ PaintCell({RoadCell})

HaulPlaceLumberCamp == BeforeFirstFrame /\ PlaceLumberCamp({FacilityCell})

\* a quarry behind the camp: its way to the base leads over the camp's cell
QuarryCell == <<0, 3>>

HaulPlaceQuarry == BeforeFirstFrame /\ PlaceQuarry({QuarryCell})

\* the repeat button belongs to the panel that confirms an assignment
HaulToggleRepeat ==
    /\ BeforeFirstFrame
    /\ trucks[1].state = "idle"
    /\ ToggleRepeat(TruckIds)

\* the player picks the camp as source once it stands
HaulStartAssignment ==
    /\ trucks[1].state = "idle"
    /\ get_building_at_cell(buildings, FacilityCell) # 0
    /\ StartAssignment(TruckIds, Sources, {base_cell}, Kinds)

HaulTick == Update(MaxHaulFrames, MaxHaulFrames * LongFrame)

NextHaul ==
    \/ HaulPaintCell
    \/ HaulPlaceLumberCamp
    \/ HaulPlaceQuarry
    \/ HaulToggleRepeat
    \/ HaulStartAssignment
    \/ HaulTick

\* HaulTick seen on the frame counter: update is defined in every state, so
\* HaulTick is enabled exactly when a frame is left to count, and its steps
\* are the steps of NextHaul that count one.
HaulFrame == frames < MaxHaulFrames /\ IsUpdateStep

SpecHaul == Init /\ [][NextHaul]_vars /\ WF_frames(HaulFrame)

Last(seq) == seq[Len(seq)]

\* truck k carries the assignment camp -> base for wood, on repeat
Hauling(k) ==
    /\ trucks[k].repeat_enabled
    /\ trucks[k].saved_source = FacilityCell
    /\ trucks[k].saved_dest = base_cell
    /\ trucks[k].saved_resource = "wood"

C12_NeverIdle ==
    \A k \in 1..Len(trucks) : Hauling(k) => trucks[k].state \in {"to_source", "to_dest"}

C12_RequeueStep ==
    IsUpdateStep =>
        \A k \in 1..Len(trucks) :
            (Hauling(k) /\ trucks[k].state = "to_dest" /\ trucks'[k].state # "to_dest") =>
                /\ trucks'[k].current_cell = base_cell
                /\ trucks'[k].state = "to_source"
                /\ trucks'[k].path_cells # <<>>
                /\ Last(trucks'[k].path_cells) = FacilityCell
                /\ trucks'[k].dest_cell = base_cell
                /\ trucks'[k].cargo_type = "wood"
                /\ trucks'[k].cargo_amount = 0
                /\ Hauling(k)'

C12_ToSourceAgain ==
    (Hauling(1) /\ trucks[1].state = "to_dest" /\ frames <= MaxHaulFrames - LegFrames)
        ~> (trucks[1].state = "to_source")

C12_ToDestAgain ==
    (Hauling(1) /\ trucks[1].state = "to_source" /\ frames <= MaxHaulFrames - LegFrames)
        ~> (trucks[1].state = "to_dest")

\* C12: a truck on repeat that hauls wood from the connected lumber camp to
\* the base is never idle; every arrival that ends its to_dest leg is at the
\* base and puts it in to_source with a path to the same saved source; and,
\* with a frame following a frame, every to_dest leg leads to to_source and
\* every to_source leg to to_dest again, for as long as frames are counted.
C12_RepeatRequeues ==
    /\ []C12_NeverIdle
    /\ [][C12_RequeueStep]_vars
    /\ C12_ToSourceAgain
    /\ C12_ToDestAgain

\* two loads have been delivered and the truck is on its way to the camp again
C12_Witness ==
    /\ Hauling(1)
    /\ trucks[1].state = "to_source"
    /\ resources.wood >= 2 * LoadBatch

\* truck k is on a single trip: it is under way with the repeat switch off
Fetching(k) ==
    /\ ~trucks[k].repeat_enabled
    /\ trucks[k].state \in {"to_source", "to_dest"}

\* the wood the camp holds when a truck loads in this update: production
\* comes before the trucks
WoodAtLoad ==
    produce(buildings[get_building_at_cell(buildings, FacilityCell)], frame_dt).storage.wood

C13_TripStep ==
    IsUpdateStep =>
        \A k \in 1..Len(trucks) :
            LET t == trucks[k]
                u == trucks'[k]
            IN  Fetching(k) =>
                    \* the load at the camp
                    /\ (t.state = "to_source" /\ u.state # "to_source") =>
                           /\ u.state = "to_dest"
                           /\ u.cargo_amount = Min3(LoadBatch, WoodAtLoad, cargo_capacity)
                           /\ WoodAtLoad >= LoadBatch => u.cargo_amount = LoadBatch
                           /\ resources' = resources
                    \* the way back
                    /\ (t.state = "to_dest" /\ u.state = "to_dest") =>
                           /\ u.cargo_amount = t.cargo_amount
                           /\ resources' = resources
                    \* the delivery at the base
                    /\ (t.state = "to_dest" /\ u.state # "to_dest") =>
                           /\ u.state = "idle"
                           /\ u.current_cell = base_cell
                           /\ u.cargo_amount = 0
                           /\ t.cargo_amount = LoadBatch =>
                                  resources' = [resources EXCEPT !.wood = @ + LoadBatch]

C13_BackToIdle ==
    (Fetching(1) /\ frames <= MaxHaulFrames - 2 * LegFrames)
        ~> (trucks[1].state = "idle" /\ trucks[1].cargo_amount = 0)

\* C13: with repeat off, the truck sent for wood loads min(5, wood at the
\* camp at load time, capacity), which is 5 when the camp holds at least 5,
\* carries it unchanged to the base, and on arrival there becomes idle and
\* empty while resources.wood grows by exactly that 5; with a frame following
\* a frame every such trip ends in idle (trips that start at least two legs
\* before the end of the counted frames).
C13_OneTripThenIdle == [][C13_TripStep]_vars /\ C13_BackToIdle

\* back at the base, idle and empty, after one trip with a full load of 5
\* taken in short frames, that is from a camp that held at least 5
C13_Witness ==
    /\ frame_dt = ShortFrame
    /\ ~trucks[1].repeat_enabled
    /\ trucks[1].state = "idle"
    /\ trucks[1].current_cell = base_cell
    /\ trucks[1].cargo_amount = 0
    /\ resources.wood = LoadBatch

\* the storage entry that building b produces into
produce_key(b) == IF b.type = "lumber" THEN "wood" ELSE "stone"

\* no truck takes anything from the storage of building b in this update
NoTruckLoads(b) ==
    \A k \in 1..Len(trucks) :
        trucks'[k].current_cell = b.cell =>
            trucks'[k].cargo_amount = trucks[k].cargo_amount

\* no truck was ever sent to building b
NeverServed(b) ==
    \A k \in 1..Len(trucks) : trucks[k].saved_source # b.cell

\* amount (in 1/StoreScale units) = rate (in 1/RateScale per second) times
\* time (in 1/TicksPerSec seconds)
IsRateTimesTime(amount, rate, t) ==
    amount * RateScale * TicksPerSec = rate * t * StoreScale

C14_GainStep ==
    IsUpdateStep =>
        \A i \in 1..Len(buildings) :
            LET b == buildings[i]
                key == produce_key(b)
            IN  (b.type \in {"lumber", "quarry"} /\ production_gate(b)
                   /\ NoTruckLoads(b)) =>
                    IsRateTimesTime(buildings'[i].storage[key] - b.storage[key],
                                    b.production_rate_per_sec, frame_dt)

C14_Total ==
    \A i \in 1..Len(buildings) :
        LET b == buildings[i]
        IN  (b.type \in {"lumber", "quarry"} /\ production_gate(b) /\ NeverServed(b)) =>
                IsRateTimesTime(b.storage[produce_key(b)],
                                b.production_rate_per_sec, Elapsed)

\* C14: a lumber camp or quarry that is connected to the base gains exactly
\* production_rate_per_sec * dt of wood or stone in every update(dt) in which
\* no truck loads from it; connected since the first frame and never served
\* by a truck, it holds rate * T after frames totalling T seconds.
C14_ProductionRate == [][C14_GainStep]_vars /\ []C14_Total

TenSeconds == 10 * TicksPerSec

\* ten seconds have gone by: camp and quarry, six trees and six stones in
\* reach (1.2 per second), hold 12 each
C14_Witness ==
    /\ Elapsed = TenSeconds
    /\ Len(buildings) = 2
    /\ \A i \in 1..2 :
           /\ production_gate(buildings[i])
           /\ NeverServed(buildings[i])
           /\ buildings[i].production_rate_per_sec = 6
           /\ buildings[i].storage[produce_key(buildings[i])] = 12 * StoreScale

(***************************************************************************)
(* The stone chain with the base as a stop: roads, quarry and refinery are *)
(* built before the first frame; truck 1 fetches stone from the quarry to  *)
(* the base or to the refinery when it is idle, is sent on the trip base   *)
(* -> refinery when it is idle or waits at the refinery, and can be reset  *)
(* at any time.  Frames are long ones.                                     *)
(***************************************************************************)
MaxChainFrames == 20

ChainPaintCell == BeforeFirstFrame /\ PaintCell({RoadCell, EastRoadCell})

ChainPlaceQuarry == BeforeFirstFrame /\ PlaceQuarry({FacilityCell})

ChainPlaceRefinery == BeforeFirstFrame /\ PlaceRefinery({RefineryCell})

ChainFetchStone ==
    /\ trucks[1].state = "idle"
    /\ StartAssignment(TruckIds, {FacilityCell}, {base_cell, RefineryCell}, {"stone"})

ChainFeedRefinery ==
    /\ trucks[1].state \in {"idle", "waiting_for_bmats"}
    /\ StartAssignment(TruckIds, {base_cell}, {RefineryCell}, {"stone"})

ChainResetTruck == ResetTruck(TruckIds)

ChainTick == Update(MaxChainFrames, MaxChainFrames * LongFrame)

NextChain ==
    \/ ChainPaintCell
    \/ ChainPlaceQuarry
    \/ ChainPlaceRefinery
    \/ ChainFetchStone
    \/ ChainFeedRefinery
    \/ ChainResetTruck
    \/ ChainTick

InitChain == InitGame /\ frame_dt = LongFrame

SpecChain == InitChain /\ [][NextChain]_vars

\* truck t is on the first leg of a trip base -> refinery for stone
FeedTrip(t) ==
    /\ t.state = "to_source"
    /\ t.saved_source = base_cell
    /\ t.saved_resource = "stone"
    /\ is_refinery_at(buildings, t.saved_dest)

\* update_truck pops the last cell of t's path in this update and calls
\* on_truck_arrival
ArrivesNow(t) ==
    /\ Len(t.path_cells) = 1
    /\ t.position_px = cell_center(t.path_cells[1])

C16_LoadAtBaseStep ==
    IsUpdateStep =>
        \A k \in 1..Len(trucks) :
            LET t == trucks[k]
                u == trucks'[k]
                at_base == [t EXCEPT !.current_cell = base_cell]
                load == Min3(LoadBatch, resources.stone, cargo_capacity - t.cargo_amount)
            IN  (FeedTrip(t) /\ ArrivesNow(t) /\ t.path_cells[1] = base_cell
                   /\ resources.stone > 0 /\ load > 0
                   /\ leg_path(at_base, t.saved_dest) # <<>>) =>
                    /\ u.state = "to_dest"
                    /\ u.cargo_type = "stone"
                    /\ u.cargo_amount = t.cargo_amount + load
                    /\ resources'.stone = resources.stone - load
                    /\ u.path_cells # <<>>
                    /\ Last(u.path_cells) = t.saved_dest

\* C16 as stated: a truck sent on the trip base -> refinery for stone from
\* outside the base area, on arriving at the base with stone in the pool and
\* the road to the refinery intact, loads stone from the pool and leaves in
\* to_dest for the refinery with that stone, without a further command.
C16_LoadsAtBaseThenDelivers == [][C16_LoadAtBaseStep]_vars

C26_ArrivalAtBaseStep ==
    IsUpdateStep =>
        \A k \in 1..Len(trucks) :
            LET t == trucks[k]
                u == trucks'[k]
                load == Min3(LoadBatch, resources[t.cargo_type],
                             cargo_capacity - t.cargo_amount)
            IN  (t.state = "to_source" /\ t.saved_source = base_cell
                   /\ ArrivesNow(t) /\ t.path_cells[1] = base_cell
                   /\ t.cargo_type \in {"bmats", "stone", "wood"}
                   /\ resources[t.cargo_type] > 0) =>
                    /\ u.cargo_amount = t.cargo_amount + load
                    /\ resources'[t.cargo_type] = resources[t.cargo_type] - load
                    /\ leg_path([t EXCEPT !.current_cell = base_cell],
                                t.saved_dest) # <<>> => u.state = "to_dest"

\* C26 as stated: a truck in to_source that arrives at its saved source, the
\* base cell, loads min(5, resources[cargo_type], cargo_capacity -
\* cargo_amount) from the pool, the pool entry decreases by that amount, and
\* the truck proceeds in to_dest.
C26_LoadsFromPoolAtBase == [][C26_ArrivalAtBaseStep]_vars

\* the step is a call of start_assignment for truck k that went through
IsAssignStep(k) ==
    \E source \in {FacilityCell, base_cell}, dest \in {base_cell, RefineryCell} :
        /\ trucks'[k] = start_assignment(trucks[k], source, dest, "stone")
        /\ trucks'[k].saved_source = source
        /\ trucks'[k].saved_dest = dest

\* a command changed truck k (no frame was counted) and it was not an assignment
IsResetStep(k) ==
    /\ frames' = frames
    /\ trucks'[k] # trucks[k]
    /\ ~IsAssignStep(k)

C17_ResetStep ==
    \A k \in 1..Len(trucks) :
        IsResetStep(k) =>
            /\ \/ trucks[k].state = "idle"
               \/ trucks[k].state = "to_source"
               \/ trucks[k].state = "to_dest"
               \/ trucks[k].state = "waiting_for_bmats"
            /\ trucks'[k].state = "idle"
            /\ trucks'[k].path_cells = <<>>
            /\ trucks'[k].cargo_type = NoRes
            /\ trucks'[k].cargo_amount = 0
            /\ trucks'[k].saved_source = NoCell
            /\ trucks'[k].saved_dest = NoCell
            /\ trucks'[k].saved_resource = NoRes

\* C17: a reset of a truck in any state (idle, to_source, to_dest,
\* waiting_for_bmats) leaves it idle with empty path_cells, no cargo type,
\* cargo 0 and no saved source, destination or resource.
C17_ResetClearsTruck == [][C17_ResetStep]_vars

\* a truck that waited at the refinery for bmats has been reset there
C17_Witness ==
    /\ trucks[1].state = "idle"
    /\ trucks[1].current_cell = RefineryCell
    /\ trucks[1].waiting_target > 0
    /\ trucks[1].saved_source = NoCell
    /\ trucks[1].cargo_amount = 0

(***************************************************************************)
(* The truck that waits at the refinery: truck 1 has delivered one to      *)
(* MaxStone stone and waits for as many bmats; it can be given a new       *)
(* assignment or be reset at any time while the long frames go by.         *)
(***************************************************************************)
MaxWaitFrames == 8

InitWait ==
    /\ \E n \in 1..MaxStone : RefineryStocked(n)
    /\ InitNoCall
    /\ frames = 0
    /\ frame_dt = LongFrame

WaitStartAssignment ==
    StartAssignment(TruckIds, {FacilityCell, base_cell}, {base_cell, RefineryCell},
                    {"stone"})

WaitResetTruck == ResetTruck(TruckIds)

WaitTick == Update(MaxWaitFrames, MaxWaitFrames * LongFrame)

NextWait == WaitStartAssignment \/ WaitResetTruck \/ WaitTick

SpecWait == InitWait /\ [][NextWait]_vars

\* truck k is in waiting_for_bmats before the step and not after it
LeavesWaiting(k) ==
    /\ trucks[k].state = "waiting_for_bmats"
    /\ trucks'[k].state # "waiting_for_bmats"

\* the step is a call of reset_truck for truck k
IsResetCall(k) ==
    /\ frames' = frames
    /\ trucks'[k] = reset_truck(trucks[k])

\* the refinery that truck t waits at holds at least waiting_target bmats
BmatsReady(t) ==
    \E i \in 1..Len(buildings) :
        /\ buildings[i].type = "refinery"
        /\ buildings[i].cell = t.dest_cell
        /\ buildings[i].storage.bmats >= t.waiting_target

\* the step is the collection of the bmats by truck k: an update with the
\* bmats ready, after which the truck carries them in to_dest
IsCollection(k) ==
    /\ IsUpdateStep
    /\ BmatsReady(trucks[k])
    /\ trucks'[k].state = "to_dest"
    /\ trucks'[k].cargo_type = "bmats"

C25_OriginalStep ==
    \A k \in 1..Len(trucks) :
        LeavesWaiting(k) => (IsResetCall(k) \/ IsCollection(k))

C25_LeaveStep ==
    \A k \in 1..Len(trucks) :
        /\ LeavesWaiting(k) => (IsResetCall(k) \/ IsAssignStep(k))
        /\ (IsUpdateStep /\ trucks[k].state = "waiting_for_bmats") =>
               trucks'[k].state = "waiting_for_bmats"

MaxTripFrames == 16
MidFrame == (3 * TicksPerSec) \div 2
TripIds == {2}
TripSources == {FacilityCell, QuarryCell, RefineryCell}
TripDests == {base_cell, RefineryCell}
TripKinds == {"bmats", "stone", "wood"}

InitTrips ==
    /\ \E n \in 1..MaxStone : RefineryStocked(n)
    /\ InitNoCall
    /\ frames = 0
    /\ frame_dt = MidFrame

TripPlaceLumberCamp == BeforeFirstFrame /\ PlaceLumberCamp({FacilityCell})

TripPlaceQuarry == BeforeFirstFrame /\ PlaceQuarry({QuarryCell})

TripStartAssignment ==
    /\ trucks[2].state = "idle"
    /\ StartAssignment(TripIds, TripSources, TripDests, TripKinds)

TripTick == Update(MaxTripFrames, MaxTripFrames * MidFrame)

NextTrips ==
    \/ TripPlaceLumberCamp
    \/ TripPlaceQuarry
    \/ TripStartAssignment
    \/ TripTick

SpecTrips == InitTrips /\ [][NextTrips]_vars

\* the facility type that produces a resource
producer_of(resource) ==
    IF resource = "wood" THEN "lumber"
    ELSE IF resource = "stone" THEN "quarry"
    ELSE "refinery"

\* truck t reaches building b, its saved source, in this update
ArrivesAtSource(t, b) ==
    /\ t.state = "to_source"
    /\ ArrivesNow(t)
    /\ t.path_cells[1] = t.saved_source
    /\ b.cell = t.saved_source

\* no other truck than k reaches the cell of building b in this update
OnlyArrival(k, b) ==
    \A j \in 1..Len(trucks) :
        (j # k /\ trucks[j].path_cells # <<>>) => Last(trucks[j].path_cells) # b.cell

C27_LoadStep ==
    IsUpdateStep =>
        \A k \in 1..Len(trucks), i \in 1..Len(buildings) :
            LET t == trucks[k]
                b == buildings[i]
                stored == produce(b, frame_dt).storage[t.cargo_type]
                L == Min3(LoadBatch, stored, cargo_capacity - t.cargo_amount)
            IN  (ArrivesAtSource(t, b) /\ OnlyArrival(k, b)
                   /\ t.cargo_type \in {"bmats", "stone", "wood"}
                   /\ b.type = producer_of(t.cargo_type)) =>
                    /\ trucks'[k].cargo_amount = t.cargo_amount + L
                    /\ buildings'[i].storage[t.cargo_type] = stored - L

Offered(t, b) ==
    IF b.type = producer_of(t.cargo_type)
    THEN produce(b, frame_dt).storage[t.cargo_type]
    ELSE 0

C28_ZeroLoadStep ==
    IsUpdateStep =>
        \A k \in 1..Len(trucks), i \in 1..Len(buildings) :
            LET t == trucks[k]
                b == buildings[i]
                u == trucks'[k]
                way == leg_path([t EXCEPT !.current_cell = b.cell], t.dest_cell)
            IN  (ArrivesAtSource(t, b) /\ OnlyArrival(k, b)
                   /\ t.cargo_type \in {"bmats", "stone", "wood"}
                   /\ Min3(LoadBatch, Offered(t, b),
                           cargo_capacity - t.cargo_amount) = 0) =>
                    /\ u.cargo_amount = t.cargo_amount
                    /\ buildings'[i].storage = produce(b, frame_dt).storage
                    /\ way # <<>> => (u.state = "to_dest" /\ u.path_cells = way)

\* C28: a truck that arrives at its source facility when the load amount is
\* 0 keeps its cargo_amount and takes nothing, and if a road path to the
\* destination exists it is in to_dest on that path at the end of the same
\* tick: it does not stay at the source.
C28_ZeroLoadProceeds == [][C28_ZeroLoadStep]_vars

\* truck 2, sent to the lumber camp for stone, found none there and has
\* left empty for its destination
C28_Witness ==
    /\ Len(buildings) = 3
    /\ trucks[2].state = "to_dest"
    /\ trucks[2].saved_source = FacilityCell
    /\ trucks[2].current_cell = FacilityCell
    /\ trucks[2].cargo_type = "stone"
    /\ trucks[2].cargo_amount = 0
    /\ trucks[2].path_cells # <<>>

(***************************************************************************)
(* Stone deliveries under short frames: quarry, refinery and their roads   *)
(* are built before the first frame, and each of the two trucks is sent    *)
(* from the quarry to the refinery whenever it is idle, so that the second *)
(* truck can reach the quarry a frame after the first has emptied it.      *)
(***************************************************************************)
MaxDeliverFrames == 28

InitDeliver == InitGame /\ frame_dt = ShortFrame

DeliverStartAssignment ==
    /\ StartAssignment(FleetIds, {FacilityCell}, {RefineryCell}, {"stone"})
    /\ \A k \in 1..Len(trucks) : trucks'[k] # trucks[k] => trucks[k].state = "idle"

DeliverTick == Update(MaxDeliverFrames, MaxDeliverFrames * ShortFrame)

NextDeliver ==
    \/ FleetPaintCell
    \/ FleetPlaceQuarry
    \/ FleetPlaceRefinery
    \/ DeliverStartAssignment
    \/ DeliverTick

SpecDeliver == InitDeliver /\ [][NextDeliver]_vars

\* truck t reaches building b, its destination, in this update
ArrivesAtDest(t, b) ==
    /\ t.state = "to_dest"
    /\ ArrivesNow(t)
    /\ t.path_cells[1] = t.dest_cell
    /\ b.cell = t.dest_cell

\* truck k hands stone to refinery i in this update
DeliversStone(k, i) ==
    /\ IsUpdateStep
    /\ ArrivesAtDest(trucks[k], buildings[i])
    /\ OnlyArrival(k, buildings[i])
    /\ buildings[i].type = "refinery"
    /\ trucks[k].cargo_type = "stone"
    /\ trucks[k].cargo_amount > 0

\* the stone is added in whole units and the truck is emptied
StoneHandedOver(k, i) ==
    /\ buildings'[i].storage.stone =
           produce(buildings[i], frame_dt).storage.stone
               + (trucks[k].cargo_amount \div StoreScale) * StoreScale
    /\ trucks'[k].cargo_amount = 0

C29_OriginalStep ==
    \A k \in 1..Len(trucks), i \in 1..Len(buildings) :
        DeliversStone(k, i) =>
            /\ StoneHandedOver(k, i)
            /\ trucks'[k].state = "waiting_for_bmats"
            /\ trucks'[k].waiting_target =
                   (trucks[k].cargo_amount \div StoreScale) * StoreScale

\* C29 as stated: a truck in to_dest that arrives at a refinery carrying
\* stone with cargo_amount > 0 adds the integer-truncated cargo to the stone
\* storage of the refinery, sets cargo_amount to 0, and enters
\* waiting_for_bmats with waiting_target equal to the delivered amount.
C29_DeliveryThenWaiting == [][C29_OriginalStep]_vars

C29_DeliveryStep ==
    \A k \in 1..Len(trucks), i \in 1..Len(buildings) :
        DeliversStone(k, i) =>
            /\ StoneHandedOver(k, i)
            /\ trucks[k].cargo_amount >= OneUnit =>
                   /\ trucks'[k].state = "waiting_for_bmats"
                   /\ trucks'[k].waiting_target =
                          (trucks[k].cargo_amount \div StoreScale) * StoreScale
            /\ trucks[k].cargo_amount < OneUnit =>
                   /\ trucks'[k].state # "waiting_for_bmats"
                   /\ trucks'[k].waiting_target = trucks[k].waiting_target

\* C29: a truck in to_dest that arrives at a refinery carrying stone with
\* cargo_amount > 0 adds the integer-truncated cargo to the stone storage of
\* the refinery and sets cargo_amount to 0; with cargo_amount >= 1 it enters
\* waiting_for_bmats with waiting_target equal to the delivered amount, with
\* cargo_amount < 1 nothing is delivered and it does not wait.
C29_DeliveryThenWaitingFromOne == [][C29_DeliveryStep]_vars

\* truck 1 waits for the 4 bmats that its 4.2 stone count for; truck 2,
\* which brought 0.6 stone, is idle at the refinery, empty, and waits for
\* nothing
C29_Witness ==
    /\ trucks[1].state = "waiting_for_bmats"
    /\ trucks[1].waiting_target = 4 * StoreScale
    /\ trucks[2].state = "idle"
    /\ trucks[2].current_cell = RefineryCell
    /\ trucks[2].cargo_amount = 0
    /\ trucks[2].waiting_target = 0

(***************************************************************************)
(* Deliveries of every kind: beside the stocked refinery a quarry is built *)
(* before the first frame and a lumber camp at any frame; truck 2, when    *)
(* idle, is sent for wood, stone or bmats to the facility that produces    *)
(* them and on to the base or, with wood and bmats, to a facility.         *)
(***************************************************************************)
MaxUnloadFrames == 16
UnloadDests == {QuarryCell, base_cell, RefineryCell}

InitUnload ==
    /\ RefineryStocked(MaxStone)
    /\ InitNoCall
    /\ frames = 0
    /\ frame_dt = MidFrame

UnloadPlaceLumberCamp == PlaceLumberCamp({FacilityCell})

UnloadPlaceQuarry == BeforeFirstFrame /\ PlaceQuarry({QuarryCell})

UnloadFetchWood ==
    /\ trucks[2].state = "idle"
    /\ StartAssignment(TripIds, {FacilityCell}, UnloadDests, {"wood"})

UnloadFetchStone ==
    /\ trucks[2].state = "idle"
    /\ StartAssignment(TripIds, {QuarryCell}, {base_cell}, {"stone"})

UnloadFetchBmats ==
    /\ trucks[2].state = "idle"
    /\ StartAssignment(TripIds, {RefineryCell}, UnloadDests, {"bmats"})

UnloadTick == Update(MaxUnloadFrames, MaxUnloadFrames * MidFrame)

NextUnload ==
    \/ UnloadPlaceLumberCamp
    \/ UnloadPlaceQuarry
    \/ UnloadFetchWood
    \/ UnloadFetchStone
    \/ UnloadFetchBmats
    \/ UnloadTick

SpecUnload == InitUnload /\ [][NextUnload]_vars

\* truck k reaches its destination with cargo in this update, and no other
\* truck has a path left
ArrivesLoaded(k) ==
    /\ trucks[k].state = "to_dest"
    /\ ArrivesNow(trucks[k])
    /\ trucks[k].path_cells[1] = trucks[k].dest_cell
    /\ trucks[k].cargo_amount > 0
    /\ \A j \in 1..Len(trucks) : j # k => trucks[j].path_cells = <<>>

\* the destination of truck t is the base and its cargo one of the three
\* kinds, or it is a facility and the cargo is wood or bmats
CreditsPool(t) ==
    \/ /\ t.dest_cell = base_cell
       /\ (t.cargo_type = "bmats" \/ t.cargo_type = "stone" \/ t.cargo_type = "wood")
    \/ /\ t.dest_cell # base_cell
       /\ \E i \in 1..Len(buildings) : buildings[i].cell = t.dest_cell
       /\ (t.cargo_type = "bmats" \/ t.cargo_type = "wood")

C30_UnloadStep ==
    IsUpdateStep =>
        \A k \in 1..Len(trucks) :
            LET t == trucks[k]
            IN  (ArrivesLoaded(k) /\ CreditsPool(t)) =>
                    /\ resources' =
                           [resources EXCEPT ![t.cargo_type] =
                                @ + (t.cargo_amount \div StoreScale) * StoreScale]
                    /\ trucks'[k].cargo_amount = 0

\* C30: a truck in to_dest that arrives at its destination with
\* cargo_amount > 0 adds the integer-truncated cargo to the pool entry of
\* its cargo_type and sets cargo_amount to 0 when the destination is the
\* base (cargo wood, stone or bmats) and when the destination is a non-base
\* facility and the cargo is wood or bmats.
C30_UnloadCreditsPool == [][C30_UnloadStep]_vars

\* truck 2 has brought wood from the young camp to the quarry: less than a
\* batch, counted into the pool in whole units
C30_Witness ==
    /\ trucks[2].current_cell = QuarryCell
    /\ trucks[2].saved_source = FacilityCell
    /\ trucks[2].cargo_amount = 0
    /\ resources.wood = 3 * StoreScale

(***************************************************************************)
(* Specification of build mode with the material pool running out: the     *)
(* build commands on the cells around the base and a road dragged cell by  *)
(* cell along a free row, which costs one bmat per cell.                   *)
(***************************************************************************)
RowLength == 10
RowY == 6
RowCells == {<<x, RowY>> : x \in 0..(RowLength - 1)}

\* the drag reaches a cell after the cells before it
PlaceDragRoad ==
    \E cell \in RowCells :
        /\ \A c \in RowCells : c[1] < cell[1] => c \in roads
        /\ PaintCell({cell})

NextPlace ==
    \/ PaintCell(BuildCells)
    \/ PlaceDragRoad
    \/ PlaceLumberCamp(BuildCells)
    \/ PlaceQuarry(BuildCells)
    \/ PlaceRefinery(BuildCells)
    \/ ExecuteBulldoze(BuildCells)

SpecPlace == InitBuild /\ [][NextPlace]_vars

PlaceCells == BuildCells \cup BaseArea \cup RowCells

\* the cells at distance one (diagonals included) from the base footprint
InBaseRing(cell) ==
    /\ cell \notin BaseArea
    /\ \E b \in BaseArea : Abs(cell[1] - b[1]) <= 1 /\ Abs(cell[2] - b[2]) <= 1

FacilityBlocked(cell) ==
    \/ cell \in trees
    \/ cell \in stones
    \/ cell \in roads
    \/ cell \in FacilityCells
    \/ InBaseRing(cell)

RoadBlocked(cell) ==
    \/ cell \in trees
    \/ cell \in stones
    \/ cell \in roads
    \/ resources.bmats = 0

\* the step is a placeFacility on cell
PlacesFacility(cell) ==
    PlaceLumberCamp({cell}) \/ PlaceQuarry({cell}) \/ PlaceRefinery({cell})

\* the step puts a new facility on cell
FacilityAdded(cell) ==
    /\ Len(buildings') = Len(buildings) + 1
    /\ buildings'[Len(buildings')].cell = cell

C19_RejectedStep ==
    \A cell \in PlaceCells :
        /\ (FacilityBlocked(cell) /\ PlacesFacility(cell)) => UNCHANGED world
        /\ FacilityBlocked(cell) => ~FacilityAdded(cell)
        /\ (RoadBlocked(cell) /\ PaintCell({cell})) => UNCHANGED world
        /\ RoadBlocked(cell) => ~(cell \in roads' /\ cell \notin roads)

\* C19: placeFacility (lumber, quarry or refinery) on a cell that holds a
\* tree, a stone, a road or another facility, or that lies in the one-cell
\* ring around the base footprint, and placeRoad on a cell that holds a tree,
\* a stone or a road or when the pool holds no bmats, change nothing.
C19_RejectedPlacementChangesNothing == [][C19_RejectedStep]_vars

\* the pool is empty and every kind of blocked cell is on the map: a road,
\* a facility, trees, stones and the ring around the base
C19_Witness ==
    /\ resources.bmats = 0
    /\ Len(buildings) = 2
    /\ <<1, 2>> \notin roads
    /\ RowCells \subseteq roads

C20_PaintStep ==
    \A cell \in PlaceCells :
        (cell \in roads' /\ cell \notin roads) =>
            /\ ~(cell \in trees \/ cell \in stones)
            /\ resources.bmats > 0
            /\ resources' = [resources EXCEPT !.bmats = @ - OneUnit]
            /\ roads' = roads \cup {cell}
            /\ road_grid' = road_grid \cup {cell}
            /\ UNCHANGED <<trees, stones, buildings, trucks>>

C20_Painted ==
    \A cell \in PlaceCells :
        (/\ ~(cell \in trees \/ cell \in stones \/ cell \in roads)
         /\ resources.bmats > 0
         /\ PaintCell({cell}))
            => cell \in roads' /\ is_driveable(cell)'

\* C20: a placeRoad on a cell that holds no tree, stone or road while the
\* pool holds bmats takes exactly 1 bmat, adds the cell to the road set and
\* makes it driveable, and changes nothing else.
C20_PlaceRoadEffect == [][C20_PaintStep /\ C20_Painted]_vars

\* the last bmat has been spent on the last cell of the row
C20_Witness ==
    /\ roads = RowCells
    /\ RowCells \subseteq road_grid
    /\ resources.bmats = 0
    /\ buildings = <<>>

(***************************************************************************)
(* Specification of assignments on a map that changes under the trucks:    *)
(* the road cells west and east of the base, the quarry and the refinery   *)
(* are built and bulldozed, and every start_assignment records its last    *)
(* pathfinder call.                                                        *)
(***************************************************************************)
MaxAssignFrames == 2
AssignSources == {FacilityCell, base_cell}
AssignDests == {base_cell, RefineryCell}

PathCall(start, goal) ==
    [called |-> TRUE, start |-> start, goal |-> goal,
     path |-> find_path_on_roads(start, goal)]

NoPathCall == [called |-> FALSE, start |-> NoCell, goal |-> NoCell, path |-> <<>>]

\* the last find_path_on_roads call that start_assignment makes for these
\* arguments, NoPathCall when it returns before any
last_path_call(t, source, dest, resource) ==
    LET start_cell == find_nearest_road_to_cell(world_pos_to_cell(t.position_px))
        source_road == find_nearest_road_to_cell(source)
        dest_road == find_nearest_road_to_cell(dest)
        base_road == find_nearest_road_to_cell(base_cell)
    IN  IF start_cell = NoCell \/ source_road = NoCell \/ dest_road = NoCell
        THEN NoPathCall
        ELSE IF source = base_cell /\ resource = "stone"
        THEN IF ~is_cell_in_base_area(t.current_cell)
             THEN IF base_road = NoCell THEN NoPathCall
                  ELSE PathCall(start_cell, base_road)
             ELSE PathCall(start_cell, dest_road)
        ELSE IF Abs(source[1] - base_cell[1]) + Abs(source[2] - base_cell[2]) <= 3
                /\ source_road = dest_road
        THEN IF base_road # NoCell /\ base_road # source_road
             THEN IF find_path_on_roads(start_cell, base_road) # <<>>
                  THEN PathCall(start_cell, base_road)
                  ELSE PathCall(start_cell, source_road)
             ELSE NoPathCall
        ELSE PathCall(start_cell, source_road)

AssignPaintCell == PaintCell({RoadCell, EastRoadCell})
AssignPlaceQuarry == PlaceQuarry({FacilityCell})
AssignPlaceRefinery == PlaceRefinery({RefineryCell})
AssignBulldoze == ExecuteBulldoze({FacilityCell, RoadCell})

AssignStartAssignment ==
    \E k \in 1..Len(trucks), source \in AssignSources, dest \in AssignDests :
        LET c == last_path_call(trucks[k], source, dest, "stone")
        IN  /\ trucks[k].truck_id \in TruckIds
            /\ trucks' = [trucks EXCEPT ![k] = start_assignment(@, source, dest, "stone")]
            /\ IF c.called
               THEN /\ pf_start' = c.start
                    /\ pf_goal' = c.goal
                    /\ pf_path' = c.path
                    /\ pf_called' = TRUE
               ELSE UNCHANGED pf
            /\ UNCHANGED <<roads, road_grid, trees, stones, resources, buildings, factory, time>>

AssignResetTruck == ResetTruck(TruckIds)
AssignTick == Update(MaxAssignFrames, MaxAssignFrames * LongFrame)

NextAssign ==
    \/ AssignPaintCell
    \/ AssignPlaceQuarry
    \/ AssignPlaceRefinery
    \/ AssignBulldoze
    \/ AssignStartAssignment
    \/ AssignResetTruck
    \/ AssignTick

SpecAssign == InitChain /\ [][NextAssign]_vars

\* start_assignment finds no nearest road for the truck, the source or the
\* destination, or its pathfinder call for the first leg comes back empty
CannotResolve(t, source, dest, resource) ==
    \/ find_nearest_road_to_cell(world_pos_to_cell(t.position_px)) = NoCell
    \/ find_nearest_road_to_cell(source) = NoCell
    \/ find_nearest_road_to_cell(dest) = NoCell
    \/ LET c == last_path_call(t, source, dest, resource)
       IN  c.called /\ c.path = <<>>

C18_TruckUntouched ==
    \A k \in 1..Len(trucks), source \in AssignSources, dest \in AssignDests :
        CannotResolve(trucks[k], source, dest, "stone")
            => start_assignment(trucks[k], source, dest, "stone") = trucks[k]

\* a start_assignment whose pathfinder call came back empty
C18_FailedCallStep ==
    (pf_called' /\ pf_path' = <<>> /\ pf' # pf) => UNCHANGED <<world, time>>

ResourceNames == {"bmats", "oil", "steel", "stone", "wood"}

InitialPool ==
    resources = [oil |-> 0, steel |-> 0, wood |-> 0, stone |-> 0,
                 bmats |-> 10 * StoreScale]

\* every entry of the pool is a whole number of units, none below zero
C21_PoolEntries ==
    /\ DOMAIN resources = ResourceNames
    /\ \A name \in ResourceNames :
           /\ resources[name] >= 0
           /\ resources[name] % StoreScale = 0

\* C21: in every reachable state every entry of the base resource pool (oil,
\* steel, wood, stone, bmats) is a non-negative integer; the initial pool is
\* bmats = 10 and every other resource 0.
C21_PoolNonNegativeIntegers == InitialPool /\ []C21_PoolEntries

\* a road was paid for and a load of less than a batch and not a whole number
\* of units (the camp gains 0.6 wood per short frame and 3.0 is its only whole
\* stock below a batch) reached the pool as a whole number
C21_Witness ==
    /\ frame_dt = ShortFrame
    /\ resources.wood > 0
    /\ resources.wood < LoadBatch
    /\ resources.wood # 3 * StoreScale
    /\ resources.bmats = 9 * StoreScale
    /\ trucks[1].cargo_amount = 0

(***************************************************************************)
(* Specification of the truck factory: the game with a pool that hauling   *)
(* bmats from a refinery has filled, the "+" button of the truck panel,    *)
(* and the wood-hauling commands for the old and the new trucks.           *)
(***************************************************************************)
MaxFactoryFrames == 6

\* the pool in units of bmats at the start: below, at and above the price of
\* the third truck (40), and around the price of the third and the fourth
\* together (40 + 55)
FactoryPools == {10, 39, 40, 94, 95}

FactoryIds == {1, 3}

\* the world of Game.__init__ but for the bmats of the pool
InitFactory ==
    /\ roads = {}
    /\ road_grid = BaseArea
    /\ trees = InitTrees
    /\ stones = InitStones
    /\ \E n \in FactoryPools :
           resources = [oil |-> 0, steel |-> 0, wood |-> 0, stone |-> 0,
                        bmats |-> n * StoreScale]
    /\ buildings = <<>>
    /\ trucks = <<SpawnedTruck(1), SpawnedTruck(2)>>
    /\ trucks_built = 2
    /\ next_truck_id = 3
    /\ frames = 0
    /\ frame_dt = LongFrame
    /\ InitNoCall

\* mutant of get_truck_cost: the price does not grow
get_truck_cost_flat == 10 * StoreScale

\* 10 + (15 * self.trucks_built), in 1/StoreScale units
get_truck_cost == (10 + 15 * trucks_built) * StoreScale

\* mutant of spawn_truck_at_base: the id counter is not advanced
spawn_truck_at_base_same == Append(trucks, SpawnedTruck(Len(trucks)))

\* self.trucks after spawn_truck_at_base
spawn_truck_at_base == Append(trucks, SpawnedTruck(next_truck_id))

\* mutant of build_new_truck: the factory does not count the truck
build_new_truck_uncounted ==
    IF resources.bmats >= get_truck_cost
    THEN /\ resources' = [resources EXCEPT !.bmats = @ - get_truck_cost]
         /\ trucks' = spawn_truck_at_base
         /\ next_truck_id' = next_truck_id + 1
         /\ trucks_built' = trucks_built
    ELSE UNCHANGED <<resources, trucks, factory>>

\* spawn_truck_at_base appends the truck and advances next_truck_id, then
\* TruckFactory.build_truck adds 1 to trucks_built
build_new_truck ==
    IF resources.bmats >= get_truck_cost
    THEN /\ resources' = [resources EXCEPT !.bmats = @ - get_truck_cost]
         /\ trucks' = spawn_truck_at_base
         /\ next_truck_id' = next_truck_id + 1
         /\ trucks_built' = trucks_built + 1
    ELSE UNCHANGED <<resources, trucks, factory>>

BuildNewTruck ==
    /\ build_new_truck
    /\ UNCHANGED <<roads, road_grid, trees, stones, buildings, time, pf>>

NextFactory ==
    \/ BuildNewTruck
    \/ PaintCell({RoadCell})
    \/ PlaceLumberCamp({FacilityCell})
    \/ ExecuteBulldoze({RoadCell})
    \/ StartAssignment(FactoryIds, Sources, {base_cell}, Kinds)
    \/ ResetTruck(FactoryIds)
    \/ Update(MaxFactoryFrames, MaxFactoryFrames * LongFrame)

SpecFactory == InitFactory /\ [][NextFactory]_vars

\* the price in bmats that the claim gives for the next truck
PriceOfNextTruck == (10 + 15 * trucks_built) * StoreScale

\* truck t stands idle and empty on the base cell
IdleAtBase(t) ==
    /\ t.state = "idle"
    /\ t.current_cell = base_cell
    /\ t.position_px = cell_center(base_cell)
    /\ t.path_cells = <<>>
    /\ t.cargo_amount = 0

\* every step that changes the size of the fleet is a purchase at the price
C22_PurchaseStep ==
    Len(trucks') # Len(trucks) =>
        /\ resources.bmats >= PriceOfNextTruck
        /\ resources' = [resources EXCEPT !.bmats = @ - PriceOfNextTruck]
        /\ Len(trucks') = Len(trucks) + 1
        /\ SubSeq(trucks', 1, Len(trucks)) = trucks
        /\ IdleAtBase(trucks'[Len(trucks')])
        /\ trucks_built' = trucks_built + 1
        /\ UNCHANGED <<roads, road_grid, trees, stones, buildings, time>>

\* a press of the button buys when the pool covers the price and changes
\* nothing when it does not
C22_ButtonStep ==
    BuildNewTruck =>
        IF resources.bmats >= PriceOfNextTruck
        THEN Len(trucks') = Len(trucks) + 1
        ELSE UNCHANGED vars

\* C22: build_new_truck succeeds if and only if the pool holds at least
\* 10 + 15 * trucks_built bmats; on success it deducts exactly that price,
\* adds one idle truck at the base and adds 1 to trucks_built; otherwise it
\* changes nothing.
C22_BuildNewTruck == [][C22_PurchaseStep /\ C22_ButtonStep]_vars

\* the third truck was bought for 40 and the fourth for 55 out of a pool
\* of 95
C22_Witness ==
    /\ Len(trucks) = 4
    /\ resources.bmats = 0
    /\ IdleAtBase(trucks[4])

TruckIdsInWorld == {trucks[k].truck_id : k \in 1..Len(trucks)}

C23_DistinctIds ==
    \A j, k \in 1..Len(trucks) : j # k => trucks[j].truck_id # trucks[k].truck_id

\* every truck is still there after the step, and a truck that was not
\* there before has an id above all the ids before
C23_FleetStep ==
    /\ TruckIdsInWorld \subseteq {trucks'[k].truck_id : k \in 1..Len(trucks')}
    /\ Len(trucks') >= Len(trucks)
    /\ \A k \in 1..Len(trucks') :
           trucks'[k].truck_id \notin TruckIdsInWorld =>
               \A id \in TruckIdsInWorld : trucks'[k].truck_id > id

\* C23: trucks are never removed from the world by any command or tick, all
\* truck ids are pairwise distinct, and every newly created truck gets an id
\* strictly greater than every existing truck's id.
C23_FleetOnlyGrows == [][C23_FleetStep]_vars /\ []C23_DistinctIds

\* two trucks were bought, the first of them was sent for wood and reset
\* on its way
C23_Witness ==
    /\ TruckIdsInWorld = 1..4
    /\ trucks[3].state = "idle"
    /\ trucks[3].position_px # cell_center(base_cell)
    /\ frames > 0

(***************************************************************************)
(* Specification of the pathfinder as a pure function of the map.          *)
(***************************************************************************)
InitPath ==
    /\ roads = {}
    /\ road_grid \in SUBSET PFCells
    /\ trees = {}
    /\ stones = {}
    /\ resources = [oil |-> 0, steel |-> 0, wood |-> 0, stone |-> 0,
                    bmats |-> 10 * StoreScale]
    /\ buildings = <<>>
    /\ trucks = <<>>
    /\ trucks_built = 0
    /\ next_truck_id = 1
    /\ frames = 0
    /\ frame_dt = 0
    /\ pf_start \in PFCells
    /\ pf_goal \in PFCells
    /\ pf_path = <<>>
    /\ pf_called = FALSE

CallFindPath ==
    /\ ~pf_called
    /\ pf_path' = find_path_on_roads(pf_start, pf_goal)
    /\ pf_called' = TRUE
    /\ UNCHANGED <<world, time, pf_start, pf_goal>>

NextPath == CallFindPath

SpecPath == InitPath /\ [][NextPath]_vars

(***************************************************************************)
(* Reference notions for the pathfinder claims, defined on sets and not on *)
(* the queue of the code.                                                  *)
(***************************************************************************)
Adjacent4(a, b) == Abs(a[1] - b[1]) + Abs(a[2] - b[2]) = 1

\* Least number of hops from a cell of frontier to goal through driveable
\* cells, counted from k; -1 when there is none.
RECURSIVE MinHops(_, _, _, _)
MinHops(frontier, seen, goal, k) ==
    IF goal \in frontier THEN k
    ELSE IF frontier = {} THEN -1
    ELSE LET nxt == {n \in road_grid \ seen : \E c \in frontier : Adjacent4(c, n)}
         IN  MinHops(nxt, seen \cup nxt, goal, k + 1)

HopDistance(start, goal) == MinHops({start}, {start}, goal, 0)

\* C1: for start # goal with goal reachable from start through 4-adjacent
\* driveable cells, the returned path begins with start, ends with goal, has
\* every cell after the first driveable, every consecutive pair 4-adjacent,
\* and as many hops as the breadth-first minimum.
C1_PathValidShortest ==
    (pf_called /\ pf_start # pf_goal /\ HopDistance(pf_start, pf_goal) > 0) =>
        /\ Len(pf_path) >= 2
        /\ pf_path[1] = pf_start
        /\ pf_path[Len(pf_path)] = pf_goal
        /\ \A i \in 2..Len(pf_path) : pf_path[i] \in road_grid
        /\ \A i \in 1..(Len(pf_path) - 1) : Adjacent4(pf_path[i], pf_path[i + 1])
        /\ Len(pf_path) - 1 = HopDistance(pf_start, pf_goal)

\* a reachable goal whose shortest path has to leave the row of start
C1_Witness ==
    /\ pf_called
    /\ pf_start # pf_goal
    /\ HopDistance(pf_start, pf_goal) >= 4
    /\ Len(pf_path) = 5

\* C2: the result is empty exactly when start # goal and goal is not
\* reachable from start; for start = goal it is the one-cell path.
C2_EmptyIffUnreachable ==
    pf_called =>
        /\ (pf_path = <<>>) <=>
               (pf_start # pf_goal /\ HopDistance(pf_start, pf_goal) = -1)
        /\ (pf_start = pf_goal) => (pf_path = <<pf_start>>)

\* an unreachable goal that is itself driveable, answered with the empty path
C2_Witness ==
    /\ pf_called
    /\ pf_start # pf_goal
    /\ pf_goal \in road_grid
    /\ \E c \in road_grid : Adjacent4(pf_start, c)
    /\ pf_path = <<>>

(***************************************************************************)
(* Specification of find_nearest_road_to_cell as a pure function of the    *)
(* map: the driveable cells are any subset of NearCells, the cell asked    *)
(* for is one of ProbeCells, and the one action makes the call with every  *)
(* radius 1..MaxRadius.  pf_path[r] records the result for radius r.       *)
(***************************************************************************)
MaxRadius == 3

NearCells ==
    {<<-1, 0>>, <<0, 0>>, <<0, 1>>, <<1, 0>>, <<2, -1>>, <<2, 2>>,
     <<3, 0>>, <<4, 0>>}

ProbeCells == {<<0, 0>>, <<1, 0>>}

InitNearest ==
    /\ roads = {}
    /\ road_grid \in SUBSET NearCells
    /\ trees = {}
    /\ stones = {}
    /\ resources = [oil |-> 0, steel |-> 0, wood |-> 0, stone |-> 0,
                    bmats |-> 10 * StoreScale]
    /\ buildings = <<>>
    /\ trucks = <<>>
    /\ trucks_built = 0
    /\ next_truck_id = 1
    /\ frames = 0
    /\ frame_dt = 0
    /\ pf_start \in ProbeCells
    /\ pf_goal = NoCell
    /\ pf_path = <<>>
    /\ pf_called = FALSE

CallFindNearest ==
    /\ ~pf_called
    /\ pf_path' = [r \in 1..MaxRadius |-> find_nearest_road(pf_start, r)]
    /\ pf_called' = TRUE
    /\ UNCHANGED <<world, time, pf_start, pf_goal>>

NextNearest == CallFindNearest

SpecNearest == InitNearest /\ [][NextNearest]_vars

\* reference notions on sets: Manhattan distance, and the driveable cells
\* within a distance of a cell
Manhattan(a, b) == Abs(a[1] - b[1]) + Abs(a[2] - b[2])

DriveableWithin(cell, lo, hi) ==
    {c \in road_grid : Manhattan(c, cell) >= lo /\ Manhattan(c, cell) <= hi}

\* C24: find_nearest_road_to_cell(cell, r) returns cell itself when cell is
\* driveable; otherwise a driveable cell whose Manhattan distance to cell
\* is the smallest among the driveable cells at distance 1..r; and it
\* returns none exactly when no cell within distance r of cell, cell
\* included, is driveable.
C24_NearestRoadContract ==
    pf_called =>
        \A r \in 1..MaxRadius :
            /\ is_driveable(pf_start) => pf_path[r] = pf_start
            /\ (~is_driveable(pf_start) /\ pf_path[r] # NoCell) =>
                   /\ pf_path[r] \in DriveableWithin(pf_start, 1, r)
                   /\ \A c \in DriveableWithin(pf_start, 1, r) :
                          Manhattan(pf_path[r], pf_start)
                              <= Manhattan(c, pf_start)
            /\ (pf_path[r] = NoCell)
                   <=> (DriveableWithin(pf_start, 0, r) = {})

\* the cell asked for is not driveable: radius 1 finds nothing, the largest
\* radius answers with one of two driveable cells on its last ring, and a
\* driveable cell one ring further out is passed over
C24_Witness ==
    /\ pf_called
    /\ ~is_driveable(pf_start)
    /\ pf_path[1] = NoCell
    /\ pf_path[MaxRadius] # NoCell
    /\ Manhattan(pf_path[MaxRadius], pf_start) = MaxRadius
    /\ Cardinality(DriveableWithin(pf_start, MaxRadius, MaxRadius)) = 2
    /\ DriveableWithin(pf_start, MaxRadius + 1, MaxRadius + 1) # {}

(***************************************************************************)
(* Invariants of the fleet over whole games.                               *)
(***************************************************************************)
\* C31 as stated: in every reachable state an idle truck has no cargo type
\* and cargo_amount = 0, also when its source or destination facility was
\* bulldozed while it was under way.
C31_IdleTruckEmpty ==
    \A k \in 1..Len(trucks) :
        trucks[k].state = "idle" =>
            (trucks[k].cargo_type = NoRes /\ trucks[k].cargo_amount = 0)

(***************************************************************************)
(* The trip a successful start_assignment leaves on the truck.             *)
(***************************************************************************)
\* the step is the call start_assignment(k, source, dest, "stone"), it found
\* a path for the first leg and left the truck in to_source
AssignedToSource(k, source, dest) ==
    LET c == last_path_call(trucks[k], source, dest, "stone")
    IN  /\ frames' = frames
        /\ c.called
        /\ c.path # <<>>
        /\ pf_called'
        /\ pf_start' = c.start
        /\ pf_goal' = c.goal
        /\ pf_path' = c.path
        /\ trucks' = [trucks EXCEPT ![k] = start_assignment(@, source, dest, "stone")]
        /\ trucks'[k].state = "to_source"

\* the saved trip is the request and the path starts at the road nearest to
\* the cell the truck stands in
SavedAsRequested(k, source, dest) ==
    /\ trucks'[k].saved_source = source
    /\ trucks'[k].saved_dest = dest
    /\ trucks'[k].saved_resource = "stone"
    /\ trucks'[k].path_cells # <<>>
    /\ trucks'[k].path_cells[1] =
           find_nearest_road_to_cell(world_pos_to_cell(trucks[k].position_px))

C32_OriginalStep ==
    \A k \in 1..Len(trucks), source \in AssignSources, dest \in AssignDests :
        AssignedToSource(k, source, dest) =>
            /\ SavedAsRequested(k, source, dest)
            /\ Last(trucks'[k].path_cells) = trucks'[k].saved_source

C32_AssignStep ==
    \A k \in 1..Len(trucks), source \in AssignSources, dest \in AssignDests :
        AssignedToSource(k, source, dest) =>
            /\ SavedAsRequested(k, source, dest)
            /\ Last(trucks'[k].path_cells)
                   \in {source, find_nearest_road_to_cell(source)}
            /\ is_driveable(source) => Last(trucks'[k].path_cells) = source

Towards(n, v) == IF v >= 0 THEN 0 <= n /\ n <= v ELSE v <= n /\ n <= 0

\* what one update_truck does to a truck t that has a path; u is the truck
\* after the frame
MovedOneFrame(t, u, dt) ==
    LET head == t.path_cells[1]
        target_px == cell_center(head)
        vx == target_px[1] - t.position_px[1]
        vy == target_px[2] - t.position_px[2]
        mx == u.position_px[1] - t.position_px[1]
        my == u.position_px[2] - t.position_px[2]
        step == SpeedPerTick * dt
    IN  IF vx = 0 /\ vy = 0
        THEN \* the truck stands on the centre: it takes the cell
             /\ u.position_px = target_px
             /\ u.current_cell = head
             /\ Len(t.path_cells) > 1 => u.path_cells = Tail(t.path_cells)
        ELSE \* the truck moves and takes no cell
             /\ u.path_cells = t.path_cells
             /\ u.current_cell = t.current_cell
             /\ u.state = t.state
             /\ Towards(mx, vx)
             /\ Towards(my, vy)
             /\ mx * mx + my * my <= step * step
             /\ step * step >= vx * vx + vy * vy => u.position_px = target_px
             /\ vy = 0 => Abs(mx) = Min2(step, Abs(vx))
             /\ vx = 0 => Abs(my) = Min2(step, Abs(vy))

C33_MoveStep ==
    IsUpdateStep =>
        \A k \in 1..Len(trucks) :
            trucks[k].path_cells # <<>>
                => MovedOneFrame(trucks[k], trucks'[k], frame_dt)

\* C33: in one update_truck(dt) a truck with a non-empty path either stands
\* on the centre of the head cell and takes it (exactly one cell is popped
\* and current_cell becomes that cell), or moves toward that centre by
\* min(speed * dt, remaining distance): it never passes the centre and never
\* pops more than one cell in a frame, however long the frame.
C33_OneCellPerFrame == [][C33_MoveStep]_vars

\* a frame of 2.5 s, in which the truck could drive three cells, has left it
\* on the centre of the next cell of its path, which it has not taken yet
C33_Witness ==
    /\ frames > 0
    /\ frame_dt = LongFrame
    /\ SpeedPerTick * frame_dt > 2 * CellSize
    /\ trucks[1].path_cells # <<>>
    /\ trucks[1].position_px = cell_center(trucks[1].path_cells[1])
    /\ trucks[1].current_cell # trucks[1].path_cells[1]

(***************************************************************************)
(* Roads and production: the player paints and bulldozes the cells west    *)
(* and east of the base, the camp cell and the refinery cell included,     *)
(* builds a lumber camp, and frames go by.  The game starts either from    *)
(* construction or with a stocked refinery east of the base.               *)
(***************************************************************************)
MaxLinkFrames == 4
LinkCells == {FacilityCell, RoadCell, EastRoadCell, RefineryCell}

InitLink ==
    /\ InitWorld \/ (RefineryStocked(MaxStone) /\ frames = 0)
    /\ InitNoCall
    /\ frame_dt = LongFrame

LinkPaintCell == PaintCell(LinkCells)
LinkPlaceLumberCamp == PlaceLumberCamp({FacilityCell})
LinkBulldoze == ExecuteBulldoze(LinkCells)
LinkTick == Update(MaxLinkFrames, MaxLinkFrames * LongFrame)

NextLink ==
    \/ LinkPaintCell
    \/ LinkPlaceLumberCamp
    \/ LinkBulldoze
    \/ LinkTick

SpecLink == InitLink /\ [][NextLink]_vars

\* the driveable cells that a chain of 4-adjacent driveable cells joins to a
\* cell of S
RECURSIVE DriveableFrom(_)
DriveableFrom(S) ==
    LET T == S \cup {c \in road_grid : \E d \in S : Adjacent4(c, d)}
    IN  IF T = S THEN S ELSE DriveableFrom(T)

NextToBase(cell) == cell \in BaseArea \/ \E d \in BaseArea : Adjacent4(cell, d)

\* cell is on, or 4-adjacent to, a chain of driveable cells that touches the
\* base footprint
LinkedToBase(cell) ==
    LET chain == DriveableFrom({c \in road_grid : NextToBase(c)})
    IN  \/ NextToBase(cell)
        \/ cell \in chain
        \/ \E d \in chain : Adjacent4(cell, d)

\* the frame added nothing to the storage of building i and converted
\* nothing in it
NothingAccrued(i) ==
    LET old == buildings[i]
        new == buildings'[i]
    IN  /\ new.storage.wood <= old.storage.wood
        /\ new.storage.bmats <= old.storage.bmats
        /\ old.type # "refinery" => new.storage.stone <= old.storage.stone
        /\ old.type = "refinery" => new.storage.stone >= old.storage.stone

C34_OriginalStep ==
    IsUpdateStep =>
        \A i \in 1..Len(buildings) :
            ~LinkedToBase(buildings[i].cell) => NothingAccrued(i)

C34_DriveableStep ==
    IsUpdateStep =>
        \A i \in 1..Len(buildings) :
            (/\ is_driveable(buildings[i].cell)
             /\ is_driveable(base_cell)
             /\ ~LinkedToBase(buildings[i].cell)) => NothingAccrued(i)

LeftWithoutPath(k) ==
    /\ trucks'[k].state = "to_source"
    /\ trucks'[k].path_cells = <<>>
    /\ ~(trucks[k].state = "to_source" /\ trucks[k].path_cells = <<>>)

\* the exits of the arrival handling that leave a truck in to_source: it
\* is not on its saved source, or no leg leads on to its destination
NoNextLeg(t) ==
    \/ t.current_cell # t.saved_source
    \/ t.dest_cell = NoCell
    \/ leg_path(t, t.dest_cell) = <<>>

C35_StrandedStep ==
    \A k \in 1..Len(trucks) :
        LeftWithoutPath(k) =>
            /\ IsUpdateStep
            /\ Len(trucks[k].path_cells) = 1
            /\ trucks'[k].current_cell = trucks[k].path_cells[1]
            /\ NoNextLeg(trucks'[k])

C35_DestHasPath ==
    \A k \in 1..Len(trucks) :
        trucks[k].state = "to_dest" => trucks[k].path_cells # <<>>

MaxCargoFrames == 7
CargoKinds == {"stone", "wood"}

CargoPaintCell == PaintCell({RoadCell})
CargoPlaceLumberCamp == PlaceLumberCamp({FacilityCell})
CargoBulldoze == ExecuteBulldoze({FacilityCell, RoadCell})
CargoStartAssignment == StartAssignment(TruckIds, {FacilityCell}, {base_cell}, CargoKinds)
CargoResetTruck == ResetTruck(TruckIds)
CargoTick == Update(MaxCargoFrames, MaxCargoFrames * LongFrame)

NextCargo ==
    \/ CargoPaintCell
    \/ CargoPlaceLumberCamp
    \/ CargoBulldoze
    \/ CargoStartAssignment
    \/ CargoResetTruck
    \/ CargoTick

SpecCargo == InitChain /\ [][NextCargo]_vars

\* what the facilities blds[i..] hold of resource name
RECURSIVE StoredFrom(_, _, _)
StoredFrom(blds, name, i) ==
    IF i > Len(blds) THEN 0
    ELSE blds[i].storage[name] + StoredFrom(blds, name, i + 1)

\* what the trucks trks[k..] carry as resource name
RECURSIVE CarriedFrom(_, _, _)
CarriedFrom(trks, name, k) ==
    IF k > Len(trks) THEN 0
    ELSE (IF trks[k].cargo_type = name THEN trks[k].cargo_amount ELSE 0)
             + CarriedFrom(trks, name, k + 1)

\* base pool entry + all facility storage + cargo of that type
TotalOf(name, pool, blds, trks) ==
    pool[name] + StoredFrom(blds, name, 1) + CarriedFrom(trks, name, 1)

\* what the production loop of update(dt) adds to the storage of resource
\* name in blds[i..]
RECURSIVE ProducedFrom(_, _, _, _)
ProducedFrom(blds, name, dt, i) ==
    IF i > Len(blds) THEN 0
    ELSE Max2(0, produce(blds[i], dt).storage[name] - blds[i].storage[name])
             + ProducedFrom(blds, name, dt, i + 1)

C36_TotalStep ==
    \A name \in {"stone", "wood"} :
        TotalOf(name, resources', buildings', trucks')
            <= TotalOf(name, resources, buildings, trucks)
                 + (IF IsUpdateStep THEN ProducedFrom(buildings, name, frame_dt, 1)
                    ELSE 0)

\* C36 as stated: for wood and for stone the total of base pool entry, all
\* facility storage of the resource and cargo of the trucks whose
\* cargo_type is the resource increases only by what the production step of
\* update adds, under any interleaving of ticks with start_assignment on
\* trucks in any state, reset and bulldoze.
C36_NothingCreatedByTransport == [][C36_TotalStep]_vars

(***************************************************************************)
(* The cells of a path.                                                    *)
(***************************************************************************)
\* C37 as stated: in every reachable state every pair of consecutive cells
\* in a truck's path_cells is the same cell or 4-adjacent, the building or
\* base cell appended at the end of a leg included.
C37_PathCellsAdjacent ==
    \A k \in 1..Len(trucks) :
        \A i \in 1..(Len(trucks[k].path_cells) - 1) :
            \/ trucks[k].path_cells[i] = trucks[k].path_cells[i + 1]
            \/ Adjacent4(trucks[k].path_cells[i], trucks[k].path_cells[i + 1])

(***************************************************************************)
(* The counters of the truck factory.                                      *)
(***************************************************************************)
\* C38: in every reachable state TruckFactory.trucks_built equals the
\* number of trucks in the world and equals next_truck_id - 1, so the cost
\* quoted for the next truck is 10 + 15 * (number of existing trucks), and
\* with the two starting trucks the first purchasable truck costs 40.
C38_CountersAgree ==
    /\ trucks_built = Len(trucks)
    /\ trucks_built = next_truck_id - 1
    /\ get_truck_cost = (10 + 15 * Len(trucks)) * StoreScale
    /\ Len(trucks) >= 2
    /\ Len(trucks) = 2 => get_truck_cost = 40 * StoreScale

\* two trucks were bought: the factory has counted four trucks, the next id
\* is 5 and the next truck is quoted at 70
C38_Witness ==
    /\ Len(trucks) = 4
    /\ trucks_built = 4
    /\ next_truck_id = 5
    /\ trucks[4].truck_id = 4
    /\ get_truck_cost = 70 * StoreScale
====
